---- MODULE Spec2Model ----
(***************************************************************************)
(* Ingestion engine of core-explorer-kit: incremental commit discovery,    *)
(* merge-ancestry computation, batched graph persistence and the staged    *)
(* IngestRun state machine of process_git_data.                            *)
(*                                                                         *)
(* A repository is a commit graph.  Commits are numbered 1..Len(parents)   *)
(* in the order they arrive in the repository; parents[c] is the ordered   *)
(* parent list of c; byDate lists the commits from newest to oldest commit *)
(* date (the order `git rev-list` uses to pick the next commit of a walk); *)
(* refs maps each ref name to its tip (0: the ref does not exist).         *)
(***************************************************************************)
EXTENDS Naturals, Sequences, FiniteSets, TLC

VARIABLES
    \* the repository
    parents, byDate, refs,
    \* the graph store
    commitNodes,      \* hashes of the Commit nodes
    imported,         \* Commit nodes written by the commit upsert (properties, AUTHORED edge)
    identities,       \* Identity nodes
    refNodes,         \* Ref nodes (branch name; kind and remote are fixed)
    refPointsTo,      \* (Ref)-[:POINTS_TO]->(Commit) edges
    refStates,        \* RefState nodes <<name, tipSha>>
    sawRef,           \* (IngestRun)-[:SAW_REF]->(RefState) edges <<run, name, tipSha>>
    events,           \* commits with a commit_authored Event
    sigChecked,       \* Commit nodes with signature_checked = true
    mergedIncludes,   \* (merge)-[:MERGED_INCLUDES]->(included) edges
    ingestRuns,       \* IngestRun records by run id
    \* one invocation of process_git_data per worker
    pc, run_id, commit_limit, should_close_driver, driverOpen,
    run_info,         \* the status the stage gate read back
    new_commits, commit_count, sig_count, merge_count,
    outcome,          \* how the invocation ended
    invocations,      \* number of invocations so far
    stages,           \* the enrichment steps the invocation has taken, in order
    lastSnap,         \* store and repository as the latest completed run left them
    \* last compute_merged_commits call
    mergeResult,
    \* signature extraction: the output of `git show --show-signature` handed
    \* to the extractor (a sequence of indexes of Lines) and what the
    \* extractor returned
    output, extraction,
    \* signatures in the store and in the repository
    gitShow,          \* per commit: the output of `git show --show-signature` and the extractor's result
    tagShow,          \* per tag: whether it is annotated, the output of `git tag -v`, the result
    tagObjects,       \* names of the TagObject nodes
    pgpKeys,          \* fingerprints of the PGPKey nodes
    hasSignature,     \* (artifact)-[:HAS_SIGNATURE]->(PGPKey) edges <<type, id, fingerprint>>
    stageRun,         \* what the latest enrichment stage call selected and did
    \* the persistence layer seen from one batched write
    graph,            \* nodes, relationships and properties of the store
    batchCall,        \* the latest batched write: its rows, batch size and transactions
    \* the store under concurrent transactions
    copies,           \* per label and key: the nodes that carry them
    rels,             \* per type and ends: the relationships between such nodes
    txn,              \* per run: its next transaction, whether it is open, what it saw
    \* the FileChange nodes and the schema
    fileChanges,      \* per node id: the (commit, path) the node carries, None without node
    schema,           \* the latest create_constraints: the repair and the constraint
    \* the store connection of one invocation
    connection,       \* Neo4jDriver(): its attempts, its waits and how it ended
    \* the file changes of one commit
    trees,            \* the tree of the commit and the tree it is compared with
    all_changes,      \* what compute_file_changes returned
    \* the folder statistics and the import that precedes the staged pipeline
    touched,          \* per commit: the paths for which git's path limiting selects it
    relevant,         \* what find_relevant_commits returned
    importStatus,     \* the ImportStatus node, None without node
    fileDetails,      \* the FileDetailRecord nodes
    args,             \* the arguments of the process_git_data call
    \* the status page
    response,         \* the latest answer of /api/ingest_status/<run_id>/
    \* the two streams of the signature tool
    streams,          \* what `git show --show-signature` wrote for the artefact
    \* faults: an object git cannot read, a run killed between two transactions
    broken,           \* the commit whose object cannot be read, 0 if every object is readable
    sigRun            \* the commit-signature stage, transaction by transaction

repoVars == <<parents, byDate, refs>>
storeVars == <<commitNodes, imported, identities, refNodes, refPointsTo, refStates,
               sawRef, events, sigChecked, mergedIncludes, ingestRuns>>
workerVars == <<pc, run_id, run_info, commit_limit, should_close_driver, driverOpen,
                new_commits, commit_count, sig_count, merge_count, outcome, stages,
                lastSnap, invocations>>
extractVars == <<output, extraction>>
enrichVars == <<gitShow, tagShow, tagObjects, pgpKeys, hasSignature, stageRun>>
batchVars == <<graph, batchCall>>
concVars == <<copies, rels, txn>>
schemaVars == <<fileChanges, schema>>
changeVars == <<trees, all_changes>>
legacyVars == <<touched, relevant, importStatus, fileDetails, args>>
faultVars == <<broken, sigRun>>
moreVars == <<concVars, schemaVars, connection, changeVars, legacyVars, response, streams,
             faultVars>>
auxVars == <<extractVars, enrichVars, batchVars, moreVars>>
vars == <<repoVars, storeVars, workerVars, mergeResult, auxVars>>


\* ---------------------------------------------------------------- bounds
MaxCommits == 4          \* commits a repository holds at most
MaxParents == 2          \* parents per commit in the pipeline's repositories
MaxRuns == 3             \* invocations of process_git_data, one after the other
MaxCalls == 2            \* invocations of process_git_data by concurrent callers
MaxRunIds == 1           \* run ids the concurrent callers choose from

Workers == {"w1", "w2"}
\* run ids: a uuid4 per triggered run (app.py), or the caller's run_id
RunIds == 1..MaxRuns
\* refs_to_check, in the order the refs are enumerated
RefOrder == <<"feature", "master">>
RefNames == {RefOrder[i] : i \in 1..Len(RefOrder)}
\* repo.iter_commits() without a revision walks from HEAD
HEAD == "master"

\* ---------------------------------------------------------------- helpers
Commits == 1..Len(parents)

SeqToSet(s) == {s[i] : i \in 1..Len(s)}

\* position of commit c in byDate (1 = newest)
DatePos(c) == CHOOSE i \in 1..Len(byDate) : byDate[i] = c

\* the newest commit of a non-empty set
Newest(S) == CHOOSE c \in S : \A d \in S : DatePos(c) <= DatePos(d)

\* repo.iter_commits(rev): the commits reachable from tip, in the order
\* rev-list yields them: the start commit first, then always the newest
\* commit among the parents of the commits already yielded.
RECURSIVE WalkFrom(_, _, _)
WalkFrom(frontier, seen, acc) ==
    IF frontier = {} THEN acc
    ELSE LET c  == Newest(frontier)
             ps == SeqToSet(parents[c]) \ seen
         IN WalkFrom((frontier \ {c}) \cup ps, seen \cup ps, Append(acc, c))

iter_commits(tip) == WalkFrom({tip}, {tip}, <<>>)

Reachable(tip) == SeqToSet(iter_commits(tip))

\* the prefix of walk up to and including the first element satisfying stop
\* (the loop body runs for that element, then breaks)
RECURSIVE TakeThrough(_, _)
TakeThrough(walk, stopAt) ==
    IF walk = <<>> THEN <<>>
    ELSE IF Head(walk) = stopAt THEN <<Head(walk)>>
    ELSE <<Head(walk)>> \o TakeThrough(Tail(walk), stopAt)

\* ------------------------------------------------ merge_analyzer.py
\* The second-parent loop: collect hashes, break once the first parent's
\* hash has been collected.
SecondParentCommits(first_parent, second_parent) ==
    SeqToSet(TakeThrough(iter_commits(second_parent), first_parent))

\* a first-parent set that forgets the ancestors: the variant the
\* single-commit property must reject
FirstParentAlone(first_parent) == {first_parent}

\* The first-parent loop: the whole ancestry, no early stop.
FirstParentCommits(first_parent) == SeqToSet(iter_commits(first_parent))

\* the function without its parent count test and its except clause: the
\* variant the fail-soft property must reject
compute_merged_commits_unguarded(m, walkFails) ==
    IF Len(parents[m]) < 2 \/ walkFails
    THEN [raised |-> TRUE, value |-> {}]
    ELSE [raised |-> FALSE,
          value  |-> (SecondParentCommits(parents[m][1], parents[m][2])
                        \ FirstParentCommits(parents[m][1])) \ {m}]

\* compute_merged_commits(merge_commit, repo).  walkFails: the ancestry walk
\* raises (missing object, corrupted history).  The result records whether
\* the call raised to its caller and the list it returned, as a set.
compute_merged_commits(m, walkFails) ==
    IF Len(parents[m]) < 2
    THEN [raised |-> FALSE, value |-> {}]
    ELSE IF walkFails
    THEN [raised |-> FALSE, value |-> {}]
    ELSE [raised |-> FALSE,
          value  |-> (SecondParentCommits(parents[m][1], parents[m][2])
                        \ FirstParentCommits(parents[m][1])) \ {m}]

NoResult == [commit |-> 0, failed |-> FALSE, raised |-> FALSE, value |-> {}]

\* ------------------------------------------------ commit_details.py
\* author and committer identity of a commit: the histories alternate
\* between two people, who commit their own work
Author(c) == IF c % 2 = 1 THEN "alice" ELSE "bob"
isMerge(c) == Len(parents[c]) > 1

\* ------------------------------------------------ git_processor.py
Min(a, b) == IF a < b THEN a ELSE b

\* optional integers: <<>> is None, <<n>> is n
None == <<>>
Some(n) == <<n>>

\* lines 246-251: one ref's loop.  Stop at the first commit whose hash is
\* already in the store; add the others unless already collected.
RECURSIVE WalkRef(_, _, _)
WalkRef(walk, existing_shas, acc) ==
    IF walk = <<>> THEN acc
    ELSE IF Head(walk) \in existing_shas THEN acc
    ELSE IF Head(walk) \in SeqToSet(acc)
         THEN WalkRef(Tail(walk), existing_shas, acc)
         ELSE WalkRef(Tail(walk), existing_shas, Append(acc, Head(walk)))

\* lines 244-253: all refs in turn
RECURSIVE WalkRefs(_, _, _)
WalkRefs(i, existing_shas, acc) ==
    IF i > Len(RefOrder) THEN acc
    ELSE IF refs[RefOrder[i]] = 0
         THEN WalkRefs(i + 1, existing_shas, acc)
         ELSE WalkRefs(i + 1, existing_shas,
                       WalkRef(iter_commits(refs[RefOrder[i]]), existing_shas, acc))

\* lines 255-261: the fallback over the whole log of HEAD
RECURSIVE ScanLog(_, _, _, _)
ScanLog(walk, existing_shas, limit, acc) ==
    IF walk = <<>> THEN acc
    ELSE LET acc2 == IF Head(walk) \notin existing_shas
                     THEN Append(acc, Head(walk)) ELSE acc
         IN IF limit > 0 /\ Len(acc2) >= limit THEN acc2
            ELSE ScanLog(Tail(walk), existing_shas, limit, acc2)

\* lines 231-264: new_commits for the hashes read from the store
\* (limit 0: no commit_limit)
DiscoverCommits(existing_shas, limit) ==
    LET fromRefs == WalkRefs(1, existing_shas, <<>>)
        found    == IF fromRefs = <<>>
                    THEN ScanLog(iter_commits(refs[HEAD]), existing_shas, limit, <<>>)
                    ELSE fromRefs
    IN IF limit > 0 THEN SubSeq(found, 1, Min(limit, Len(found))) ELSE found

\* an exception leaves the function
Raised == [raised |-> TRUE]

\* repo.iter_commits(rev) over a repository with an object git cannot read:
\* rev-list reads the parents of a commit before it prints the commit, and
\* dies at the first commit that is unreadable or has an unreadable parent;
\* the commits printed before are yielded, then the iterator raises
Unwalkable(c, unreadable) == c = unreadable \/ unreadable \in SeqToSet(parents[c])

Yielded(walk, unreadable) ==
    IF \E i \in 1..Len(walk) : Unwalkable(walk[i], unreadable)
    THEN SubSeq(walk, 1, (CHOOSE i \in 1..Len(walk) :
                             /\ Unwalkable(walk[i], unreadable)
                             /\ \A j \in 1..(i - 1) : ~Unwalkable(walk[j], unreadable)) - 1)
    ELSE walk

\* lines 244-253 with the try of line 245: the loop of a ref ends at the
\* break of line 248 or with the exception, which line 252 catches; the
\* commits appended before stay in new_commits
RECURSIVE WalkRefsGuarded(_, _, _, _)
WalkRefsGuarded(i, existing_shas, acc, unreadable) ==
    IF i > Len(RefOrder) THEN acc
    ELSE IF refs[RefOrder[i]] = 0
         THEN WalkRefsGuarded(i + 1, existing_shas, acc, unreadable)
         ELSE WalkRefsGuarded(i + 1, existing_shas,
                              WalkRef(Yielded(iter_commits(refs[RefOrder[i]]), unreadable),
                                      existing_shas, acc),
                              unreadable)

\* lines 255-261 over a repository with an unreadable object: the loop over
\* the log of HEAD is in no try, so that its exception leaves the function,
\* unless the break of line 261 comes first
DiscoveryRaises(existing_shas, limit, unreadable) ==
    LET log     == iter_commits(refs[HEAD])
        scanned == ScanLog(Yielded(log, unreadable), existing_shas, limit, <<>>)
    IN /\ WalkRefsGuarded(1, existing_shas, <<>>, unreadable) = <<>>
       /\ unreadable \in SeqToSet(log)
       /\ ~(limit > 0 /\ Len(scanned) >= limit)

\* lines 231-264 over such a repository, when no exception leaves them
DiscoverGuarded(existing_shas, limit, unreadable) ==
    LET fromRefs == WalkRefsGuarded(1, existing_shas, <<>>, unreadable)
        found    == IF fromRefs = <<>>
                    THEN ScanLog(Yielded(iter_commits(refs[HEAD]), unreadable),
                                 existing_shas, limit, <<>>)
                    ELSE fromRefs
    IN IF limit > 0 THEN SubSeq(found, 1, Min(limit, Len(found))) ELSE found

\* every commit some ref reaches
ReachableFromRefs == UNION {Reachable(refs[r]) : r \in {x \in RefNames : refs[x] # 0}}

\* ------------------------------------------------ neo4j_driver.py
\* lastProgressAt is a reading of the clock: the model counts the writes of
\* the record, each of which reads the clock later than the one before
NoRun == [exists |-> FALSE, status |-> "absent", totalCommitsProcessed |-> 0,
          total_commits |-> None, totalSignaturesProcessed |-> 0,
          totalMergesProcessed |-> 0, lastProgressAt |-> 0]

\* create_ingest_run: MERGE by id, then SET status and zero the counters
create_ingest_run(runs, id) ==
    [runs EXCEPT ![id] = [@ EXCEPT !.exists = TRUE, !.status = "STARTED",
                                   !.totalCommitsProcessed = 0,
                                   !.totalSignaturesProcessed = 0,
                                   !.totalMergesProcessed = 0,
                                   !.lastProgressAt = @ + 1]]

\* update_ingest_run_status: MATCH by id (nothing happens without a record),
\* SET the status and every keyword argument that is not None under its own name
update_ingest_run_status(runs, id, status, key, value) ==
    IF ~runs[id].exists THEN runs
    ELSE [runs EXCEPT ![id] =
            LET r == [@ EXCEPT !.status = status, !.lastProgressAt = @ + 1]
            IN IF value = None THEN r
               ELSE IF key = "total_commits" THEN [r EXCEPT !.total_commits = value]
               ELSE IF key = "totalSignaturesProcessed"
                    THEN [r EXCEPT !.totalSignaturesProcessed = value[1]]
               ELSE IF key = "totalMergesProcessed"
                    THEN [r EXCEPT !.totalMergesProcessed = value[1]]
               ELSE r]

\* get_ingest_run_status: the status of the record, "absent" for None
get_ingest_run_status(runs, id) == IF runs[id].exists THEN runs[id].status ELSE "absent"

\* a gate that only tests that the record exists: the variant the gating
\* property must reject
GateOpenWhenPresent(runs, id) == get_ingest_run_status(runs, id) # "absent"

\* the test of the stage gate (git_processor.py line 80)
GateOpen(runs, id) == get_ingest_run_status(runs, id) = "COMMITS_COMPLETE"

\* _batch_upsert_commits_tx: MERGE each commit, its identities and, for each
\* parent, a Commit node with that hash
UpsertedNodes(rows) == SeqToSet(rows) \cup UNION {SeqToSet(parents[c]) : c \in SeqToSet(rows)}
UpsertedIdentities(rows) == {Author(c) : c \in SeqToSet(rows)}

StoreInit ==
    /\ commitNodes = {}
    /\ imported = {}
    /\ identities = {}
    /\ refNodes = {}
    /\ refPointsTo = {}
    /\ refStates = {}
    /\ sawRef = {}
    /\ events = {}
    /\ sigChecked = {}
    /\ mergedIncludes = {}
    /\ ingestRuns = [id \in RunIds |-> NoRun]

NoSnap == [valid |-> FALSE]

WorkersInit ==
    /\ pc = [w \in Workers |-> "idle"]
    /\ run_id = [w \in Workers |-> 1]
    /\ run_info = [w \in Workers |-> "unread"]
    /\ commit_limit = [w \in Workers |-> 0]
    /\ should_close_driver = [w \in Workers |-> FALSE]
    /\ driverOpen = [w \in Workers |-> FALSE]
    /\ new_commits = [w \in Workers |-> <<>>]
    /\ commit_count = [w \in Workers |-> 0]
    /\ sig_count = [w \in Workers |-> None]
    /\ merge_count = [w \in Workers |-> None]
    /\ outcome = [w \in Workers |-> "none"]
    /\ stages = [w \in Workers |-> <<>>]
    /\ lastSnap = NoSnap
    /\ invocations = 0

\* ------------------------------------------------ the repository changes
\* a commit is made on branch b: its first parent is the tip of b, a merge
\* names further commits that the tip does not reach yet (`git merge` makes
\* no commit otherwise); its commit date puts it at position pos of byDate
InsertAt(s, pos, x) == SubSeq(s, 1, pos - 1) \o <<x>> \o SubSeq(s, pos, Len(s))

OtherParents(tip) ==
    {s \in UNION {[1..n -> Commits \ {tip}] : n \in 0..(MaxParents - 1)} :
        \A i, j \in 1..Len(s) : i # j => s[i] # s[j]}

AllIdle == \A w \in Workers : pc[w] = "idle"

CommitOnBranch(b, others, pos) ==
    /\ AllIdle
    /\ Len(parents) < MaxCommits
    /\ refs[b] # 0
    /\ \A i \in 1..Len(others) : others[i] \notin Reachable(refs[b])
    /\ parents' = Append(parents, <<refs[b]>> \o others)
    /\ byDate' = InsertAt(byDate, pos, Len(parents) + 1)
    /\ refs' = [refs EXCEPT ![b] = Len(parents) + 1]
    /\ UNCHANGED <<storeVars, workerVars, mergeResult, auxVars>>

CreateBranch(b, c) ==
    /\ AllIdle
    /\ refs[b] = 0
    /\ refs' = [refs EXCEPT ![b] = c]
    /\ UNCHANGED <<parents, byDate, storeVars, workerVars, mergeResult, auxVars>>

\* `git branch -d`: only a branch merged into HEAD is deleted
DeleteBranch(b) ==
    /\ AllIdle
    /\ b # HEAD
    /\ refs[b] # 0
    /\ refs[b] \in Reachable(refs[HEAD])
    /\ refs' = [refs EXCEPT ![b] = 0]
    /\ UNCHANGED <<parents, byDate, storeVars, workerVars, mergeResult, auxVars>>

\* ------------------------------------------------ process_git_data
Goto(w, label) == pc' = [pc EXCEPT ![w] = label]
Called(w, stage) == stages' = [stages EXCEPT ![w] = Append(@, stage)]

\* lines 55-57: the repository handle and the store connection
Invoke(w, id, limit, own) ==
    /\ pc[w] = "idle"
    /\ invocations' = invocations + 1
    /\ Goto(w, "constraints")
    /\ run_id' = [run_id EXCEPT ![w] = id]
    /\ commit_limit' = [commit_limit EXCEPT ![w] = limit]
    /\ should_close_driver' = [should_close_driver EXCEPT ![w] = own]
    /\ driverOpen' = [driverOpen EXCEPT ![w] = TRUE]
    /\ UNCHANGED <<repoVars, storeVars, run_info, new_commits, commit_count, sig_count,
                   merge_count, outcome, stages, lastSnap, mergeResult, auxVars>>

\* line 63: constraints and indexes are declared, no node is touched
CreateConstraints(w) ==
    /\ pc[w] = "constraints"
    /\ Goto(w, "create_run")
    /\ UNCHANGED <<repoVars, storeVars, run_id, run_info, commit_limit, should_close_driver,
                   driverOpen, new_commits, commit_count, sig_count, merge_count,
                   outcome, stages, lastSnap, invocations, mergeResult, auxVars>>

\* lines 66-68
CreateIngestRun(w) ==
    /\ pc[w] = "create_run"
    /\ ingestRuns' = create_ingest_run(ingestRuns, run_id[w])
    /\ Goto(w, "discover")
    /\ UNCHANGED <<repoVars, commitNodes, imported, identities, refNodes, refPointsTo,
                   refStates, sawRef, events, sigChecked, mergedIncludes,
                   run_id, run_info, commit_limit, should_close_driver, driverOpen, new_commits,
                   commit_count, sig_count, merge_count, outcome, stages, lastSnap,
                   invocations, mergeResult, auxVars>>

\* process_commits_new_schema, lines 224-266: read the hashes, find new
\* commits; an exception of the discovery leaves process_git_data through
\* its finally clause
Discover(w) ==
    /\ pc[w] = "discover"
    /\ IF broken # 0 /\ DiscoveryRaises(commitNodes, commit_limit[w], broken)
       THEN /\ outcome' = [outcome EXCEPT ![w] = "raised"]
            /\ Goto(w, "finally")
            /\ UNCHANGED new_commits
       ELSE /\ new_commits' =
                 [new_commits EXCEPT
                    ![w] = IF broken = 0
                           THEN DiscoverCommits(commitNodes, commit_limit[w])
                           ELSE DiscoverGuarded(commitNodes, commit_limit[w], broken)]
            /\ Goto(w, "persist")
            /\ UNCHANGED outcome
    /\ UNCHANGED <<repoVars, storeVars, run_id, run_info, commit_limit, should_close_driver,
                   driverOpen, commit_count, sig_count, merge_count, stages,
                   lastSnap, invocations, mergeResult, auxVars>>

\* process_commits_new_schema, lines 268-303: batch_upsert_commits of the rows
Persist(w) ==
    /\ pc[w] = "persist"
    /\ commitNodes' = commitNodes \cup UpsertedNodes(new_commits[w])
    /\ imported' = imported \cup SeqToSet(new_commits[w])
    /\ identities' = identities \cup UpsertedIdentities(new_commits[w])
    /\ commit_count' = [commit_count EXCEPT ![w] = Len(new_commits[w])]
    /\ Goto(w, "mark")
    /\ UNCHANGED <<repoVars, refNodes, refPointsTo, refStates, sawRef, events,
                   sigChecked, mergedIncludes, ingestRuns,
                   run_id, run_info, commit_limit, should_close_driver, driverOpen, new_commits,
                   sig_count, merge_count, outcome, stages, lastSnap, invocations, mergeResult, auxVars>>

\* line 76
MarkCommitsComplete(w) ==
    /\ pc[w] = "mark"
    /\ ingestRuns' = update_ingest_run_status(ingestRuns, run_id[w], "COMMITS_COMPLETE",
                                              "total_commits", Some(commit_count[w]))
    /\ Goto(w, "gate")
    /\ UNCHANGED <<repoVars, commitNodes, imported, identities, refNodes, refPointsTo,
                   refStates, sawRef, events, sigChecked, mergedIncludes,
                   run_id, run_info, commit_limit, should_close_driver, driverOpen, new_commits,
                   commit_count, sig_count, merge_count, outcome, stages, lastSnap,
                   invocations, mergeResult, auxVars>>

\* lines 79-82: the stage gate re-reads the record
StageGate(w) ==
    /\ pc[w] = "gate"
    /\ run_info' = [run_info EXCEPT ![w] = get_ingest_run_status(ingestRuns, run_id[w])]
    /\ IF GateOpen(ingestRuns, run_id[w])
       THEN Goto(w, "refs") /\ UNCHANGED outcome
       ELSE Goto(w, "finally") /\ outcome' = [outcome EXCEPT ![w] = "gated"]
    /\ UNCHANGED <<repoVars, storeVars, run_id, commit_limit, should_close_driver,
                   driverOpen, new_commits, commit_count, sig_count, merge_count,
                   stages, lastSnap, invocations, mergeResult, auxVars>>

\* the k rows an ORDER BY ... DESC LIMIT k over commit dates returns
TopByDate(S, k) ==
    {c \in S : Cardinality({d \in S : DatePos(d) < DatePos(c)}) < k}

\* process_refs_and_tags: one row per branch; snapshot_refs writes nothing
\* when there is no row or no IngestRun record to MATCH
RefsData == {<<r, refs[r]>> : r \in {x \in RefNames : refs[x] # 0}}

ProcessRefsAndTags(w) ==
    /\ pc[w] = "refs"
    /\ Called(w, "refs")
    /\ IF ingestRuns[run_id[w]].exists
       THEN /\ refNodes' = refNodes \cup {rd[1] : rd \in RefsData}
            /\ commitNodes' = commitNodes \cup {rd[2] : rd \in RefsData}
            /\ refStates' = refStates \cup RefsData
            /\ sawRef' = sawRef \cup {<<run_id[w], rd[1], rd[2]>> : rd \in RefsData}
            /\ refPointsTo' = refPointsTo \cup RefsData
       ELSE UNCHANGED <<refNodes, commitNodes, refStates, sawRef, refPointsTo>>
    /\ Goto(w, "files")
    /\ UNCHANGED <<repoVars, imported, identities, events, sigChecked, mergedIncludes,
                   ingestRuns, run_id, run_info, commit_limit, should_close_driver, driverOpen,
                   new_commits, commit_count, sig_count, merge_count, outcome,
                   lastSnap, invocations, mergeResult, auxVars>>

\* process_file_changes_for_paths: the histories touch none of the target
\* paths, so there is no change row and no write
ProcessFileChanges(w) ==
    /\ pc[w] = "files"
    /\ Called(w, "files")
    /\ Goto(w, "events")
    /\ UNCHANGED <<repoVars, storeVars, run_id, run_info, commit_limit, should_close_driver,
                   driverOpen, new_commits, commit_count, sig_count, merge_count,
                   outcome, lastSnap, invocations, mergeResult, auxVars>>

\* create_git_events: an Event for the newest commits that have an AUTHORED
\* edge and no commit_authored Event yet (LIMIT commit_limit or 10000)
EventRows(limit) ==
    IF limit > 0 THEN TopByDate(imported \ events, limit) ELSE imported \ events

\* a pipeline that goes from the events straight to the merge ancestry: the
\* variant the stage order property must reject
CreateGitEventsThenMerges(w) ==
    /\ pc[w] = "events"
    /\ Called(w, "events")
    /\ events' = events \cup EventRows(commit_limit[w])
    /\ Goto(w, "merges")
    /\ UNCHANGED <<repoVars, commitNodes, imported, identities, refNodes, refPointsTo,
                   refStates, sawRef, sigChecked, mergedIncludes, ingestRuns,
                   run_id, run_info, commit_limit, should_close_driver, driverOpen,
                   new_commits, commit_count, sig_count, merge_count, outcome, lastSnap,
                   invocations, mergeResult, auxVars>>

\* line 103
CreateGitEvents(w) ==
    /\ pc[w] = "events"
    /\ Called(w, "events")
    /\ events' = events \cup EventRows(commit_limit[w])
    /\ Goto(w, "csigs")
    /\ UNCHANGED <<repoVars, commitNodes, imported, identities, refNodes, refPointsTo,
                   refStates, sawRef, sigChecked, mergedIncludes, ingestRuns,
                   run_id, run_info, commit_limit, should_close_driver, driverOpen, new_commits,
                   commit_count, sig_count, merge_count, outcome, lastSnap, invocations, mergeResult, auxVars>>

\* process_commit_signatures, lines 561-580: the commits not yet checked;
\* with a limit, the first rows by committedAt DESC, where the nodes without
\* a committedAt (merged as a parent or a tip only) sort first
SigBefore(a, b) ==
    \/ a \notin imported /\ b \in imported
    \/ a \in imported /\ b \in imported /\ DatePos(a) < DatePos(b)

SignedCommits == {e[2] : e \in {x \in hasSignature : x[1] = "Commit"}}

SigSelections(limit) ==
    LET cand == (commitNodes \ sigChecked) \ SignedCommits
    IN IF limit = 0 THEN {cand}
       ELSE {S \in SUBSET cand :
               /\ Cardinality(S) = Min(limit, Cardinality(cand))
               /\ \A a \in cand \ S, b \in S : ~SigBefore(a, b)}

\* process_commit_signatures: no commit of these histories is signed, so
\* every selected commit is counted unsigned and marked as checked
ProcessCommitSignatures(w, S) ==
    /\ pc[w] = "csigs"
    /\ S \in SigSelections(commit_limit[w])
    /\ Called(w, "csigs")
    /\ sigChecked' = sigChecked \cup S
    /\ sig_count' = [sig_count EXCEPT ![w] = IF S = {} THEN None ELSE Some(0)]
    /\ Goto(w, "sigstatus")
    /\ UNCHANGED <<repoVars, commitNodes, imported, identities, refNodes, refPointsTo,
                   refStates, sawRef, events, mergedIncludes, ingestRuns,
                   run_id, run_info, commit_limit, should_close_driver, driverOpen, new_commits,
                   commit_count, merge_count, outcome, lastSnap, invocations, mergeResult, auxVars>>

\* line 108
UpdateSignaturesProcessed(w) ==
    /\ pc[w] = "sigstatus"
    /\ ingestRuns' = update_ingest_run_status(ingestRuns, run_id[w], "COMMITS_COMPLETE",
                                              "totalSignaturesProcessed", sig_count[w])
    /\ Goto(w, "tsigs")
    /\ UNCHANGED <<repoVars, commitNodes, imported, identities, refNodes, refPointsTo,
                   refStates, sawRef, events, sigChecked, mergedIncludes,
                   run_id, run_info, commit_limit, should_close_driver, driverOpen, new_commits,
                   commit_count, sig_count, merge_count, outcome, stages, lastSnap,
                   invocations, mergeResult, auxVars>>

\* process_tag_signatures: the store holds no TagObject, nothing is written
ProcessTagSignatures(w) ==
    /\ pc[w] = "tsigs"
    /\ Called(w, "tsigs")
    /\ Goto(w, "merges")
    /\ UNCHANGED <<repoVars, storeVars, run_id, run_info, commit_limit, should_close_driver,
                   driverOpen, new_commits, commit_count, sig_count, merge_count,
                   outcome, lastSnap, invocations, mergeResult, auxVars>>

\* process_merged_includes: the merge commits without a MERGED_INCLUDES edge
MergeShas == {m \in imported : isMerge(m) /\ ~\E e \in mergedIncludes : e[1] = m}

RECURSIVE TotalRelationships(_)
TotalRelationships(ms) ==
    IF ms = {} THEN 0
    ELSE LET m == CHOOSE x \in ms : TRUE
         IN Cardinality(compute_merged_commits(m, FALSE).value)
              + TotalRelationships(ms \ {m})

\* _batch_create_merged_includes_tx: an edge to every included commit the
\* store has a node for
IncludedEdges ==
    {e \in MergeShas \X commitNodes :
        e[2] \in compute_merged_commits(e[1], FALSE).value}

ProcessMergedIncludes(w) ==
    /\ pc[w] = "merges"
    /\ Called(w, "merges")
    /\ mergedIncludes' = mergedIncludes \cup IncludedEdges
    /\ merge_count' = [merge_count EXCEPT ![w] =
                         IF MergeShas = {} THEN None
                         ELSE Some(TotalRelationships(MergeShas))]
    /\ Goto(w, "mergestatus")
    /\ UNCHANGED <<repoVars, commitNodes, imported, identities, refNodes, refPointsTo,
                   refStates, sawRef, events, sigChecked, ingestRuns,
                   run_id, run_info, commit_limit, should_close_driver, driverOpen, new_commits,
                   commit_count, sig_count, outcome, lastSnap, invocations, mergeResult, auxVars>>

\* line 117
UpdateMergesProcessed(w) ==
    /\ pc[w] = "mergestatus"
    /\ ingestRuns' = update_ingest_run_status(ingestRuns, run_id[w], "COMMITS_COMPLETE",
                                              "totalMergesProcessed", merge_count[w])
    /\ Goto(w, "complete")
    /\ UNCHANGED <<repoVars, commitNodes, imported, identities, refNodes, refPointsTo,
                   refStates, sawRef, events, sigChecked, mergedIncludes,
                   run_id, run_info, commit_limit, should_close_driver, driverOpen, new_commits,
                   commit_count, sig_count, merge_count, outcome, stages, lastSnap,
                   invocations, mergeResult, auxVars>>

\* line 120
MarkCompleted(w) ==
    /\ pc[w] = "complete"
    /\ ingestRuns' = update_ingest_run_status(ingestRuns, run_id[w], "COMPLETED",
                                              "none", None)
    /\ outcome' = [outcome EXCEPT ![w] = "completed"]
    /\ Called(w, "completed")
    /\ Goto(w, "finally")
    /\ UNCHANGED <<repoVars, commitNodes, imported, identities, refNodes, refPointsTo,
                   refStates, sawRef, events, sigChecked, mergedIncludes,
                   run_id, run_info, commit_limit, should_close_driver, driverOpen,
                   new_commits, commit_count, sig_count, merge_count, lastSnap,
                   invocations, mergeResult, auxVars>>

\* a store round trip of the try block (lines 59-121) raises: nothing
\* catches it, control passes to the finally clause
TryLabels == {"constraints", "create_run", "discover", "persist", "mark", "gate",
              "refs", "files", "events", "csigs", "sigstatus", "tsigs", "merges",
              "mergestatus", "complete"}

Raise(w) ==
    /\ pc[w] \in TryLabels
    /\ outcome' = [outcome EXCEPT ![w] = "raised"]
    /\ Goto(w, "finally")
    /\ UNCHANGED <<repoVars, storeVars, run_id, run_info, commit_limit, should_close_driver,
                   driverOpen, new_commits, commit_count, sig_count, merge_count,
                   stages, lastSnap, invocations, mergeResult, auxVars>>

\* a handler without the finally block: the variant the exception property
\* must reject
FinallyLeavesOpen(w) ==
    /\ pc[w] = "finally"
    /\ Goto(w, "done")
    /\ UNCHANGED <<repoVars, storeVars, run_id, run_info, commit_limit, should_close_driver,
                   driverOpen, new_commits, commit_count, sig_count, merge_count,
                   outcome, stages, lastSnap, invocations, mergeResult, auxVars>>

\* lines 142-144
Finally(w) ==
    /\ pc[w] = "finally"
    /\ driverOpen' = [driverOpen EXCEPT ![w] = IF should_close_driver[w] THEN FALSE ELSE @]
    /\ Goto(w, "done")
    /\ UNCHANGED <<repoVars, storeVars, run_id, run_info, commit_limit, should_close_driver,
                   new_commits, commit_count, sig_count, merge_count, outcome, stages,
                   lastSnap, invocations, mergeResult, auxVars>>

\* what a run is compared with by the next one: the node sets and the
\* repository a completed run without a commit limit ended with
Snapshot(w) ==
    IF outcome[w] = "completed"
    THEN [valid |-> TRUE, commitNodes |-> commitNodes, identities |-> identities,
          refNodes |-> refNodes, commits |-> Len(parents), refs |-> refs,
          limit |-> commit_limit[w]]
    ELSE NoSnap

\* line 146: process_git_data returns (or the exception leaves it)
Return(w) ==
    /\ pc[w] = "done"
    /\ Goto(w, "idle")
    /\ lastSnap' = Snapshot(w)
    /\ run_id' = [run_id EXCEPT ![w] = 1]
    /\ run_info' = [run_info EXCEPT ![w] = "unread"]
    /\ commit_limit' = [commit_limit EXCEPT ![w] = 0]
    /\ should_close_driver' = [should_close_driver EXCEPT ![w] = FALSE]
    /\ driverOpen' = [driverOpen EXCEPT ![w] = FALSE]
    /\ new_commits' = [new_commits EXCEPT ![w] = <<>>]
    /\ commit_count' = [commit_count EXCEPT ![w] = 0]
    /\ sig_count' = [sig_count EXCEPT ![w] = None]
    /\ merge_count' = [merge_count EXCEPT ![w] = None]
    /\ outcome' = [outcome EXCEPT ![w] = "none"]
    /\ stages' = [stages EXCEPT ![w] = <<>>]
    /\ UNCHANGED <<repoVars, storeVars, invocations, mergeResult, auxVars>>

\* ------------------------------------------------ signature_extractor.py
\* A text is a sequence of characters.  re.IGNORECASE compares letters by
\* their upper-case form; str.upper() maps every letter to it.
LowerAlpha ==
    <<"a", "b", "c", "d", "e", "f", "g", "h", "i", "j", "k", "l", "m",
      "n", "o", "p", "q", "r", "s", "t", "u", "v", "w", "x", "y", "z">>
UpperAlpha ==
    <<"A", "B", "C", "D", "E", "F", "G", "H", "I", "J", "K", "L", "M",
      "N", "O", "P", "Q", "R", "S", "T", "U", "V", "W", "X", "Y", "Z">>

UpperChar(c) ==
    IF \E i \in 1..Len(LowerAlpha) : LowerAlpha[i] = c
    THEN UpperAlpha[CHOOSE i \in 1..Len(LowerAlpha) : LowerAlpha[i] = c]
    ELSE c

\* str.upper()
upper(s) == [i \in 1..Len(s) |-> UpperChar(s[i])]

\* str.replace(old, ''), old a single character
RECURSIVE replace(_, _)
replace(s, old) ==
    IF s = <<>> THEN <<>>
    ELSE IF Head(s) = old THEN replace(Tail(s), old)
    ELSE <<Head(s)>> \o replace(Tail(s), old)

\* the characters '0123456789ABCDEF' of the format test (git_processor.py)
UpperHex == {"0", "1", "2", "3", "4", "5", "6", "7", "8", "9",
             "A", "B", "C", "D", "E", "F"}

\* [0-9A-F] under re.IGNORECASE
IsHex(c) == UpperChar(c) \in UpperHex

\* \s
IsSpace(c) == c \in {" ", "\t", "\n", "\r", "\f"}

\* the literal lit at position i of text; ci: compared under re.IGNORECASE
LitAt(text, i, lit, ci) ==
    /\ i + Len(lit) - 1 <= Len(text)
    /\ \A k \in 1..Len(lit) :
          IF ci THEN UpperChar(text[i + k - 1]) = UpperChar(lit[k])
          ELSE text[i + k - 1] = lit[k]

\* `lit in text`
Contains(text, lit) == \E i \in 1..Len(text) : LitAt(text, i, lit, FALSE)

\* [0-9A-F]{n} at position i
HexAt(text, i, n) ==
    /\ i + n - 1 <= Len(text)
    /\ \A k \in i..(i + n - 1) : IsHex(text[k])

\* the first position from i on that is not matched by the class (\s* or
\* [\s:]*, which take as many characters as there are)
RECURSIVE SkipClass(_, _, _)
SkipClass(text, i, colon) ==
    IF i <= Len(text) /\ (IsSpace(text[i]) \/ (colon /\ text[i] = ":"))
    THEN SkipClass(text, i + 1, colon)
    ELSE i
\* the literals of the marker test and of the patterns
Lit ==
    [ PrimaryKeyFingerprint |->
        <<"P", "r", "i", "m", "a", "r", "y", " ", "k", "e", "y", " ", "f", "i",
          "n", "g", "e", "r", "p", "r", "i", "n", "t", ":">>,
      Gpg |->
        <<"g", "p", "g", ":">>,
      GoodSignature |->
        <<"G", "o", "o", "d", " ", "s", "i", "g", "n", "a", "t", "u", "r", "e">>,
      BadSignature |->
        <<"B", "a", "d", " ", "s", "i", "g", "n", "a", "t", "u", "r", "e">>,
      UsingRSAKey |->
        <<"u", "s", "i", "n", "g", " ", "R", "S", "A", " ", "k", "e", "y">>,
      UsingECDSAKey |->
        <<"u", "s", "i", "n", "g", " ", "E", "C", "D", "S", "A", " ", "k", "e",
          "y">>,
      UsingEDDSAKey |->
        <<"u", "s", "i", "n", "g", " ", "E", "D", "D", "S", "A", " ", "k", "e",
          "y">>,
      UsingDSAKey |->
        <<"u", "s", "i", "n", "g", " ", "D", "S", "A", " ", "k", "e", "y">>,
      Using |->
        <<"u", "s", "i", "n", "g">>,
      Key |->
        <<"k", "e", "y">>,
      Id |->
        <<"i", "d">>,
      Keyid |->
        <<"k", "e", "y", "i", "d">>,
      Fingerprint |->
        <<"f", "i", "n", "g", "e", "r", "p", "r", "i", "n", "t">>,
      RSA |->
        <<"R", "S", "A">>,
      ECDSA |->
        <<"E", "C", "D", "S", "A">>,
      EDDSA |->
        <<"E", "D", "D", "S", "A">>,
      DSA |->
        <<"D", "S", "A">> ]

GroupDigits == 4          \* [0-9A-F]{4}
MoreGroups == 9           \* (?:\s+[0-9A-F]{4}){9}
FingerprintLength == 40   \* [0-9A-F]{40}, len(fingerprint) == 40

\* a pattern that does not match yields no group (groups are never empty)
NoMatch == <<>>

\* (?:\s+[0-9A-F]{4}){n} from position pos: the position after the last
\* group, 0 when the text does not match
RECURSIVE MoreGroupsAt(_, _, _)
MoreGroupsAt(text, pos, n) ==
    IF n = 0 THEN pos
    ELSE LET k == SkipClass(text, pos, FALSE)
         IN IF k > pos /\ HexAt(text, k, GroupDigits)
            THEN MoreGroupsAt(text, k + GroupDigits, n - 1)
            ELSE 0

\* pattern1 at position i: group(1), or NoMatch
Pattern1At(text, i) ==
    IF ~LitAt(text, i, Lit.PrimaryKeyFingerprint, TRUE) THEN NoMatch
    ELSE LET j == SkipClass(text, i + Len(Lit.PrimaryKeyFingerprint), FALSE)
         IN IF ~HexAt(text, j, GroupDigits) THEN NoMatch
            ELSE LET e == MoreGroupsAt(text, j + GroupDigits, MoreGroups)
                 IN IF e = 0 THEN NoMatch ELSE SubSeq(text, j, e - 1)

\* \s+ followed by [0-9A-F]{40} from position pos: the hex run, or NoMatch
SpacedHexAt(text, pos) ==
    LET k == SkipClass(text, pos, FALSE)
    IN IF k > pos /\ HexAt(text, k, FingerprintLength)
       THEN SubSeq(text, k, k + FingerprintLength - 1)
       ELSE NoMatch

\* \s+key\s+([0-9A-F]{40}) from position pos
KeyHexAt(text, pos) ==
    LET k == SkipClass(text, pos, FALSE)
    IN IF k > pos /\ LitAt(text, k, Lit.Key, TRUE)
       THEN SpacedHexAt(text, k + Len(Lit.Key))
       ELSE NoMatch

\* (?:RSA|ECDSA|EDDSA|DSA)
Algorithms == <<Lit.RSA, Lit.ECDSA, Lit.EDDSA, Lit.DSA>>

\* pattern2 at position i: group(1), or NoMatch
Pattern2At(text, i) ==
    IF ~LitAt(text, i, Lit.Using, TRUE) THEN NoMatch
    ELSE LET j == SkipClass(text, i + Len(Lit.Using), FALSE)
             algos == {a \in 1..Len(Algorithms) :
                         /\ LitAt(text, j, Algorithms[a], TRUE)
                         /\ KeyHexAt(text, j + Len(Algorithms[a])) # NoMatch}
         IN IF j > i + Len(Lit.Using) /\ algos # {}
            THEN KeyHexAt(text, j + Len(Algorithms[CHOOSE a \in algos : TRUE]))
            ELSE NoMatch

\* [\s:]*([0-9A-F]{40}) from position pos
LabeledHexAt(text, pos) ==
    LET k == SkipClass(text, pos, TRUE)
    IN IF HexAt(text, k, FingerprintLength)
       THEN SubSeq(text, k, k + FingerprintLength - 1)
       ELSE NoMatch

\* key\s+id from position i: the position after it, 0 when it does not match
KeySpaceIdAt(text, i) ==
    IF ~LitAt(text, i, Lit.Key, TRUE) THEN 0
    ELSE LET j == SkipClass(text, i + Len(Lit.Key), FALSE)
         IN IF j > i + Len(Lit.Key) /\ LitAt(text, j, Lit.Id, TRUE)
            THEN j + Len(Lit.Id) ELSE 0

\* pattern3 at position i: group(1), or NoMatch.  The alternatives are
\* tried in the order of the pattern.
Pattern3At(text, i) ==
    IF KeySpaceIdAt(text, i) # 0 /\ LabeledHexAt(text, KeySpaceIdAt(text, i)) # NoMatch
    THEN LabeledHexAt(text, KeySpaceIdAt(text, i))
    ELSE IF LitAt(text, i, Lit.Keyid, TRUE)
              /\ LabeledHexAt(text, i + Len(Lit.Keyid)) # NoMatch
    THEN LabeledHexAt(text, i + Len(Lit.Keyid))
    ELSE IF LitAt(text, i, Lit.Fingerprint, TRUE)
    THEN LabeledHexAt(text, i + Len(Lit.Fingerprint))
    ELSE NoMatch

\* re.search: the match at the leftmost position where the pattern matches
Search(text, PatternAt(_, _)) ==
    LET hits == {i \in 1..Len(text) : PatternAt(text, i) # NoMatch}
    IN IF hits = {} THEN NoMatch
       ELSE PatternAt(text, CHOOSE i \in hits : \A k \in hits : i <= k)

\* the fallback the source no longer has: any run of 40 hex characters
AnyHexAt(text, i) ==
    IF HexAt(text, i, FingerprintLength)
    THEN SubSeq(text, i, i + FingerprintLength - 1) ELSE NoMatch

\* parse_gpg_fingerprint with that fallback: the variant the unsigned
\* detection must reject
parse_gpg_fingerprint_any_hex(git_show_output) ==
    LET match1 == Search(git_show_output, Pattern1At)
        fingerprint == upper(replace(match1, " "))
        match2 == Search(git_show_output, Pattern2At)
        match3 == Search(git_show_output, Pattern3At)
    IN IF match1 # NoMatch /\ Len(fingerprint) = FingerprintLength THEN fingerprint
       ELSE IF match2 # NoMatch THEN upper(match2)
       ELSE IF match3 # NoMatch THEN upper(match3)
       ELSE upper(Search(git_show_output, AnyHexAt))

\* parse_gpg_fingerprint without the length test of line 180: the variant
\* the shape invariant must reject
parse_gpg_fingerprint_unchecked(git_show_output) ==
    LET match1 == Search(git_show_output, Pattern1At)
        match2 == Search(git_show_output, Pattern2At)
        match3 == Search(git_show_output, Pattern3At)
    IN IF match1 # NoMatch THEN upper(replace(match1, " "))
       ELSE IF match2 # NoMatch THEN upper(match2)
       ELSE IF match3 # NoMatch THEN upper(match3)
       ELSE None

\* parse_gpg_fingerprint(git_show_output): the fingerprint, None (<<>>)
\* when no pattern gives one
parse_gpg_fingerprint(git_show_output) ==
    LET match1 == Search(git_show_output, Pattern1At)
        fingerprint == upper(replace(match1, " "))
        match2 == Search(git_show_output, Pattern2At)
        match3 == Search(git_show_output, Pattern3At)
    IN IF match1 # NoMatch /\ Len(fingerprint) = FingerprintLength THEN fingerprint
       ELSE IF match2 # NoMatch THEN upper(match2)
       ELSE IF match3 # NoMatch THEN upper(match3)
       ELSE None

\* lines 56-65 and 127-136
has_signature_indicator(text) ==
    \/ Contains(text, Lit.Gpg)
    \/ Contains(text, Lit.GoodSignature)
    \/ Contains(text, Lit.BadSignature)
    \/ Contains(text, Lit.PrimaryKeyFingerprint)
    \/ Contains(text, Lit.UsingRSAKey)
    \/ Contains(text, Lit.UsingECDSAKey)
    \/ Contains(text, Lit.UsingEDDSAKey)
    \/ Contains(text, Lit.UsingDSAKey)

\* what the extractor returns: None, or the dict with the fingerprint
NoSignature == [found |-> FALSE, fingerprint |-> <<>>, method |-> "none"]

\* lines 52-80 and 126-151: from the decoded output to the result
SignatureIn(text) ==
    IF ~has_signature_indicator(text) THEN NoSignature
    ELSE LET fingerprint == parse_gpg_fingerprint(text)
         IN IF fingerprint # None
            THEN [found |-> TRUE, fingerprint |-> fingerprint, method |-> "gpg"]
            ELSE NoSignature

\* extract_commit_signature(commit) for a commit whose tool output is text.
\* fails: the subprocess times out or an exception is raised.
extract_commit_signature(text, fails) ==
    IF fails THEN NoSignature ELSE SignatureIn(text)

\* extract_tag_signature(tag_ref); annotated: tag_ref.tag is not None
extract_tag_signature(annotated, text, fails) ==
    IF fails THEN NoSignature
    ELSE IF ~annotated THEN NoSignature
    ELSE SignatureIn(text)

\* ------------------------------------------------ tool outputs
\* The outputs of `git show --show-signature` the extractor is applied to
\* are made of these lines.  Three key fingerprints and a commit hash:
Sample ==
    [ PrimaryFp |->
        <<"1", "2", "3", "4", "5", "6", "7", "8", "9", "0", "A", "B", "C", "D",
          "E", "F", "1", "2", "3", "4", "5", "6", "7", "8", "9", "0", "A", "B",
          "C", "D", "E", "F", "1", "2", "3", "4", "5", "6", "7", "8">>,
      SubkeyFp |->
        <<"A", "B", "C", "D", "E", "F", "1", "2", "3", "4", "5", "6", "7", "8",
          "9", "0", "A", "B", "C", "D", "E", "F", "1", "2", "3", "4", "5", "6",
          "7", "8", "9", "0", "A", "B", "C", "D", "E", "F", "1", "2">>,
      OtherFp |->
        <<"F", "E", "D", "C", "B", "A", "0", "9", "8", "7", "6", "5", "4", "3",
          "2", "1", "F", "E", "D", "C", "B", "A", "0", "9", "8", "7", "6", "5",
          "4", "3", "2", "1", "F", "E", "D", "C", "B", "A", "0", "9">>,
      CommitHash |->
        <<"0", "a", "1", "b", "2", "c", "3", "d", "4", "e", "5", "f", "6", "0",
          "7", "1", "8", "2", "9", "3", "a", "4", "b", "5", "c", "6", "d", "7",
          "e", "8", "f", "9", "0", "1", "2", "3", "4", "5", "6", "7">>,
      GpgUsingRSAKey |->
        <<"g", "p", "g", ":", " ", " ", " ", " ", " ", " ", " ", " ", " ", " ",
          " ", " ", " ", " ", " ", " ", "u", "s", "i", "n", "g", " ", "R", "S",
          "A", " ", "k", "e", "y", " ">>,
      GpgGoodSignatureFrom |->
        <<"g", "p", "g", ":", " ", "G", "o", "o", "d", " ", "s", "i", "g", "n",
          "a", "t", "u", "r", "e", " ", "f", "r", "o", "m", " ", "\"", "T", "e",
          "s", "t", " ", "U", "s", "e", "r", " ", "<", "t", "e", "s", "t", "@",
          "e", "x", "a", "m", "p", "l", "e", ".", "c", "o", "m", ">", "\"">>,
      GpgKeyId |->
        <<"g", "p", "g", ":", " ", "k", "e", "y", " ", "I", "D", ":", " ">>,
      Commit |->
        <<"c", "o", "m", "m", "i", "t", " ">>,
      KeyFingerprint |->
        <<"K", "e", "y", " ", "f", "i", "n", "g", "e", "r", "p", "r", "i", "n",
          "t", ":", " ">>,
      MergeBranch |->
        <<"M", "e", "r", "g", "e", " ", "b", "r", "a", "n", "c", "h", " ", "'",
          "f", "e", "a", "t", "u", "r", "e", "'">> ]

\* str.lower() on the hex digits
LowerChar(c) ==
    IF \E i \in 1..Len(UpperAlpha) : UpperAlpha[i] = c
    THEN LowerAlpha[CHOOSE i \in 1..Len(UpperAlpha) : UpperAlpha[i] = c]
    ELSE c

lower(s) == [i \in 1..Len(s) |-> LowerChar(s[i])]

\* the first n groups of four digits of fp, separated by sep and, before
\* group wide, by sep twice (gpg prints two spaces in the middle)
RECURSIVE Grouped(_, _, _, _, _)
Grouped(fp, g, n, sep, wide) ==
    IF g > n THEN <<>>
    ELSE (IF g = 1 THEN <<>> ELSE IF g = wide THEN sep \o sep ELSE sep)
         \o SubSeq(fp, GroupDigits * (g - 1) + 1, GroupDigits * g)
         \o Grouped(fp, g + 1, n, sep, wide)

PrimaryLine(fp, n, sep, wide) ==
    Lit.PrimaryKeyFingerprint \o <<" ">> \o Grouped(fp, 1, n, sep, wide)

Groups == MoreGroups + 1

Lines ==
    << PrimaryLine(Sample.PrimaryFp, Groups, <<" ">>, 6),      \* as gpg prints it
       PrimaryLine(Sample.PrimaryFp, Groups, <<" ">>, 0),      \* single spaces
       PrimaryLine(lower(Sample.PrimaryFp), Groups, <<" ">>, 6), \* lower case
       PrimaryLine(Sample.PrimaryFp, Groups, <<"\t">>, 0),     \* tabs between the groups
       PrimaryLine(Sample.PrimaryFp, Groups - 1, <<" ">>, 6),  \* one group short
       Sample.GpgUsingRSAKey \o Sample.SubkeyFp,               \* the signing key
       Sample.GpgUsingRSAKey \o SubSeq(Sample.SubkeyFp, 1, 16), \* a long key id only
       Sample.GpgKeyId \o Sample.OtherFp,                      \* labeled key id
       Sample.KeyFingerprint \o Sample.OtherFp,                \* label without a marker
       Sample.GpgGoodSignatureFrom,                            \* a marker, no fingerprint
       Sample.Commit \o Sample.CommitHash,                     \* the commit header
       Sample.MergeBranch >>                                   \* a message line

\* an output is a sequence of indexes of Lines, joined by newlines
MaxLines == 2

RECURSIVE TextOf(_)
TextOf(out) ==
    IF out = <<>> THEN <<>>
    ELSE IF Len(out) = 1 THEN Lines[out[1]]
    ELSE Lines[out[1]] \o <<"\n">> \o TextOf(Tail(out))

Outputs == UNION {[1..n -> 1..Len(Lines)] : n \in 1..MaxLines}

\* ------------------------------------------------ neo4j_driver.py: batched writes
\* The store as the Cypher statements see it.  nodes maps each node
\* <<label, key>> to its properties; edges maps each relationship
\* <<type, from, to, idx>> to the number of its copies and its properties.
NoProperties == <<>>
EmptyGraph == [nodes |-> <<>>, edges |-> <<>>]
NoCall ==
    [op |-> "none", rows |-> <<>>, batch_size |-> 0, failAt |-> 0, before |-> EmptyGraph,
     transactions |-> <<>>, raised |-> FALSE]

Node(label, key) == <<label, key>>
Edge(type, from, to) == <<type, from, to, 0>>

\* MERGE (n:Label {key}) for every n of S
MergeNodes(g, S) ==
    [g EXCEPT !.nodes = [n \in S \ DOMAIN @ |-> NoProperties] @@ @]

\* SET n.name = value for the properties p, when n exists
SetProperties(g, n, p) ==
    IF n \in DOMAIN g.nodes THEN [g EXCEPT !.nodes[n] = p @@ @] ELSE g

\* CREATE in place of MERGE: one more copy of every relationship of E, the
\* variant the idempotence property must reject
CreateEdges(g, E) ==
    [g EXCEPT !.edges =
        [e \in E |-> IF e \in DOMAIN @
                     THEN [@[e] EXCEPT !.copies = @ + 1]
                     ELSE [copies |-> 1, properties |-> NoProperties]] @@ @]

\* MERGE (a)-[:TYPE]->(b) for every relationship of E
MergeEdges(g, E) ==
    [g EXCEPT !.edges =
        [e \in E \ DOMAIN @ |-> [copies |-> 1, properties |-> NoProperties]] @@ @]

\* SET r.name = value
SetEdgeProperties(g, e, p) ==
    IF e \in DOMAIN g.edges THEN [g EXCEPT !.edges[e].properties = p @@ @] ELSE g

\* MERGE (c:Commit {commit_hash: row.sha}) with ON CREATE SET only: the
\* variant the order independence must reject
MergeCommitOnCreateOnly(g, row) ==
    IF Node("Commit", row.sha) \in DOMAIN g.nodes THEN g
    ELSE SetProperties(MergeNodes(g, {Node("Commit", row.sha)}), Node("Commit", row.sha),
                       [message |-> row.message, summary |-> row.summary,
                        authoredAt |-> row.authoredAt, committedAt |-> row.committedAt,
                        isMerge |-> row.isMerge])

\* lines 564-576: MERGE (c:Commit ...) ON CREATE SET ... ON MATCH SET ...
MergeCommit(g, row) ==
    SetProperties(MergeNodes(g, {Node("Commit", row.sha)}), Node("Commit", row.sha),
                  [message |-> row.message, summary |-> row.summary,
                   authoredAt |-> row.authoredAt, committedAt |-> row.committedAt,
                   isMerge |-> row.isMerge])

\* lines 578-588: MERGE the identity, MERGE its relationship to c, SET at
MergeIdentity(g, type, identity, c, at) ==
    SetEdgeProperties(
        MergeEdges(MergeNodes(g, {Node("Identity", identity)}),
                   {Edge(type, Node("Identity", identity), c)}),
        Edge(type, Node("Identity", identity), c), [at |-> at])

\* _batch_upsert_commits_tx for one row with parent relationships that
\* carry no idx: the variant the parent order must reject
UpsertCommitWithoutIdx(g, row) ==
    LET c == Node("Commit", row.sha)
        coauthors == {Node("Identity", row.coauthors[k]) : k \in 1..Len(row.coauthors)}
        parentNodes == {Node("Commit", row.parents[k]) : k \in 1..Len(row.parents)}
        withCommitter ==
            MergeIdentity(MergeIdentity(MergeCommit(g, row), "AUTHORED", row.author, c,
                                        row.authoredAt),
                          "COMMITTED", row.committer, c, row.committedAt)
    IN MergeEdges(
         MergeNodes(
           MergeEdges(MergeNodes(withCommitter, coauthors),
                      {Edge("CO_AUTHORED", ci, c) : ci \in coauthors}),
           parentNodes),
         {Edge("HAS_PARENT", c, p) : p \in parentNodes})

\* _batch_upsert_commits_tx for one row of the UNWIND
UpsertCommit(g, row) ==
    LET c == Node("Commit", row.sha)
        coauthors == {Node("Identity", row.coauthors[k]) : k \in 1..Len(row.coauthors)}
        parentNodes == {Node("Commit", row.parents[k]) : k \in 1..Len(row.parents)}
        withCommitter ==
            MergeIdentity(MergeIdentity(MergeCommit(g, row), "AUTHORED", row.author, c,
                                        row.authoredAt),
                          "COMMITTED", row.committer, c, row.committedAt)
    IN MergeEdges(
         MergeNodes(
           MergeEdges(MergeNodes(withCommitter, coauthors),
                      {Edge("CO_AUTHORED", ci, c) : ci \in coauthors}),
           parentNodes),
         {<<"HAS_PARENT", c, Node("Commit", row.parents[k]), k - 1>> :
             k \in 1..Len(row.parents)})

\* UNWIND row.changes AS ch, lines 625-642
RECURSIVE UpsertChanges(_, _, _)
UpsertChanges(g, sha, changes) ==
    IF changes = <<>> THEN g
    ELSE LET ch == Head(changes)
             fc == Node("FileChange", <<sha, ch.path>>)
             p == Node("Path", ch.path)
         IN UpsertChanges(
              MergeEdges(
                SetProperties(MergeNodes(g, {p, fc}), fc,
                              [status |-> ch.status, add |-> ch.add, del |-> ch.del,
                               rename_from |-> ch.rename_from,
                               isSensitive |-> ch.isSensitive]),
                {Edge("HAS_CHANGE", Node("Commit", sha), fc), Edge("OF_PATH", fc, p)}),
              sha, Tail(changes))

\* _batch_upsert_file_changes_tx for one row: nothing without the commit
UpsertFileChanges(g, row) ==
    IF Node("Commit", row.sha) \notin DOMAIN g.nodes THEN g
    ELSE UpsertChanges(g, row.sha, row.changes)

\* coalesce(a, b)
coalesce(a, b) == IF a # None THEN a ELSE b

\* n.name: null when the node has no such property
Property(g, n, name) == IF name \in DOMAIN g.nodes[n] THEN g.nodes[n][name] ELSE None

\* _batch_upsert_pgp_keys_tx for one row
UpsertPGPKey(g, row) ==
    LET k == Node("PGPKey", row.fingerprint)
    IN IF k \notin DOMAIN g.nodes
       THEN SetProperties(MergeNodes(g, {k}), k,
                          [createdAt |-> row.createdAt, revokedAt |-> row.revokedAt])
       ELSE SetProperties(g, k,
                          [createdAt |-> coalesce(row.createdAt, Property(g, k, "createdAt")),
                           revokedAt |-> coalesce(row.revokedAt, Property(g, k, "revokedAt"))])

\* _batch_create_signatures_tx for one row: nothing without the artifact
CreateSignature(g, row) ==
    LET artifact == Node(row.artifact_type, row.artifact_id)
        k == Node("PGPKey", row.fingerprint)
    IN IF artifact \notin DOMAIN g.nodes THEN g
       ELSE SetEdgeProperties(
              MergeEdges(MergeNodes(g, {k}), {Edge("HAS_SIGNATURE", artifact, k)}),
              Edge("HAS_SIGNATURE", artifact, k),
              [valid |-> row.valid, method |-> row.method, signer_fp |-> row.fingerprint])

\* _batch_mark_commits_checked_tx for one sha
MarkChecked(g, sha) ==
    SetProperties(g, Node("Commit", sha), [signature_checked |-> TRUE])

\* _batch_create_merged_includes_tx for one row
CreateMergedIncludes(g, row) ==
    LET merge == Node("Commit", row.merge_sha)
    IN IF merge \notin DOMAIN g.nodes THEN g
       ELSE IF "isMerge" \notin DOMAIN g.nodes[merge] THEN g
       ELSE IF ~g.nodes[merge].isMerge THEN g
       ELSE MergeEdges(g, {Edge("MERGED_INCLUDES", merge, Node("Commit", sha)) :
                             sha \in {s \in row.included_shas :
                                        Node("Commit", s) \in DOMAIN g.nodes}})

\* _upsert_tags_tx for one tag
UpsertTag(g, tag_data) ==
    LET to == Node("TagObject", tag_data.name)
        target == Node("Commit", tag_data.targetSha)
        tagger == Node("Identity", tag_data.tagger)
        r == Node("Ref", <<"tag", tag_data.name, "">>)
    IN MergeEdges(
         SetProperties(MergeNodes(g, {to, target, tagger, r}), to,
                       [taggerAt |-> tag_data.taggerAt, message |-> tag_data.message]),
         {Edge("TAG_OF", to, target), Edge("TAGGED", tagger, to), Edge("POINTS_TO", r, to)})

\* _snapshot_refs_tx for one ref of the run whose node is ir: nothing
\* without the IngestRun node
SnapshotRef(g, ref_data) ==
    LET ir == Node("IngestRun", ref_data.run_id)
        r == Node("Ref", <<ref_data.kind, ref_data.name, ref_data.remote>>)
        tip == Node("Commit", ref_data.tipSha)
        rs == Node("RefState", <<ref_data.name, ref_data.kind, ref_data.remote,
                                 ref_data.tipSha>>)
    IN IF ir \notin DOMAIN g.nodes THEN g
       ELSE MergeEdges(MergeNodes(g, {r, tip, rs}),
                       {Edge("SAW_REF", ir, rs), Edge("POINTS_TO", rs, tip),
                        Edge("POINTS_TO", r, tip)})

\* the batched writes of the driver, by the rows they take
Writes ==
    {"commits", "file_changes", "pgp_keys", "signatures", "checked", "merged_includes",
     "tags", "refs"}

\* upsert_tags and snapshot_refs hand all their rows to one transaction
SingleTransaction == {"tags", "refs"}

\* the statement of write op applied to one row
ApplyRow(op, g, row) ==
    CASE op = "commits" -> UpsertCommit(g, row)
      [] op = "file_changes" -> UpsertFileChanges(g, row)
      [] op = "pgp_keys" -> UpsertPGPKey(g, row)
      [] op = "signatures" -> CreateSignature(g, row)
      [] op = "checked" -> MarkChecked(g, row)
      [] op = "merged_includes" -> CreateMergedIncludes(g, row)
      [] op = "tags" -> UpsertTag(g, row)
      [] op = "refs" -> SnapshotRef(g, row)

\* UNWIND $rows AS row: the transaction function on a batch.  The signature
\* rows of commits are written before those of tags (lines 973-999)
RECURSIVE ApplyRows(_, _, _)
ApplyRows(op, g, rows) ==
    IF rows = <<>> THEN g
    ELSE ApplyRows(op, ApplyRow(op, g, Head(rows)), Tail(rows))

TransactionFunction(op, g, rows) ==
    IF op = "signatures"
    THEN ApplyRows(op, g, SelectSeq(rows, LAMBDA r : r.artifact_type = "Commit")
                            \o SelectSeq(rows, LAMBDA r : r.artifact_type = "TagObject"))
    ELSE ApplyRows(op, g, rows)

\* statements run one by one outside a transaction: when the batch fails,
\* its first row stays written.  The variant the atomicity must reject
execute_write_autocommit(op, g, batch, fails) ==
    IF fails
    THEN [graph |-> TransactionFunction(op, g, SubSeq(batch, 1, Min(1, Len(batch)))),
          raised |-> TRUE]
    ELSE [graph |-> TransactionFunction(op, g, batch), raised |-> FALSE]

\* session.execute_write(tx_function, batch): the transaction commits, or
\* it fails, nothing of it is visible and the exception leaves the call
execute_write(op, g, batch, fails) ==
    IF fails THEN [graph |-> g, raised |-> TRUE]
    ELSE [graph |-> TransactionFunction(op, g, batch), raised |-> FALSE]

\* a slice that takes one row more than the batch size: the variant the
\* partitioning must reject
BatchWithOverlap(rows, i, batch_size) ==
    SubSeq(rows, i + 1, Min(i + batch_size + 1, Len(rows)))

\* rows[i:i + batch_size]
Batch(rows, i, batch_size) == SubSeq(rows, i + 1, Min(i + batch_size, Len(rows)))

\* for i in range(0, len(rows), batch_size): one transaction per batch; the
\* exception of a failed transaction leaves the loop.  failAt: the
\* transaction that fails (0: none)
RECURSIVE WriteBatches(_, _, _, _, _, _)
WriteBatches(op, st, rows, i, batch_size, failAt) ==
    IF i >= Len(rows) \/ st.raised THEN st
    ELSE WriteBatches(op,
                      [transactions |-> Append(st.transactions, Batch(rows, i, batch_size))]
                        @@ execute_write(op, st.graph, Batch(rows, i, batch_size),
                                         Len(st.transactions) + 1 = failAt),
                      rows, i + batch_size, batch_size, failAt)

\* a batched write of the driver on the store g
BatchedWrite(op, g, rows, batch_size, failAt) ==
    IF op \in SingleTransaction
    THEN [transactions |-> <<rows>>] @@ execute_write(op, g, rows, failAt = 1)
    ELSE WriteBatches(op, [graph |-> g, raised |-> FALSE, transactions |-> <<>>],
                      rows, 0, batch_size, failAt)

\* ------------------------------------------------ rows
\* The rows the pipeline hands to the writes, for a history c0 <- c1 <- c2
\* and a merge c3 of c2 and c0, of which c0 is not among the rows.
GitIdentity(name) == [source |-> "git", name |-> name, email |-> name]

CommitRow(sha, parent_shas, author, committer, coauthors, date) ==
    [sha |-> sha, message |-> sha, summary |-> sha, authoredAt |-> date,
     committedAt |-> date, isMerge |-> Len(parent_shas) > 1, parents |-> parent_shas,
     author |-> GitIdentity(author), committer |-> GitIdentity(committer),
     coauthors |-> coauthors]

Change(path, status) ==
    [path |-> path, status |-> status, add |-> 1, del |-> 0, rename_from |-> None,
     isSensitive |-> FALSE]

Rows(op) ==
    CASE op = "commits" ->
           {CommitRow("c1", <<"c0">>, "alice", "alice", <<>>, 1),
            CommitRow("c2", <<"c1">>, "bob", "alice", <<GitIdentity("carol")>>, 2),
            CommitRow("c3", <<"c2", "c0">>, "alice", "alice", <<>>, 3)}
      [] op = "file_changes" ->
           {[sha |-> "c1", changes |-> <<Change("README.md", "A")>>],
            [sha |-> "c2", changes |-> <<Change("README.md", "M"), Change("src/a.py", "A")>>]}
      [] op = "pgp_keys" ->
           {[fingerprint |-> "K1", createdAt |-> None, revokedAt |-> None],
            [fingerprint |-> "K2", createdAt |-> Some(1), revokedAt |-> None]}
      [] op = "signatures" ->
           {[artifact_type |-> "Commit", artifact_id |-> "c1", fingerprint |-> "K1",
             valid |-> None, method |-> "gpg"],
            [artifact_type |-> "TagObject", artifact_id |-> "v1.0", fingerprint |-> "K2",
             valid |-> None, method |-> "gpg"]}
      [] op = "checked" -> {"c1", "c2"}
      [] op = "merged_includes" ->
           {[merge_sha |-> "c3", included_shas |-> {"c1", "c2"}],
            [merge_sha |-> "c2", included_shas |-> {"c1"}]}
      [] op = "tags" ->
           {[name |-> "v1.0", taggerAt |-> 2, message |-> "v1.0", targetSha |-> "c2",
             tagger |-> GitIdentity("alice")]}
      [] op = "refs" ->
           {[run_id |-> "run-1", name |-> "master", kind |-> "branch", remote |-> "",
             tipSha |-> "c3"],
            [run_id |-> "run-1", name |-> "feature", kind |-> "branch", remote |-> "",
             tipSha |-> "c2"]}

\* the lists of distinct rows of S
RowLists(S) ==
    {s \in UNION {[1..n -> S] : n \in 0..Cardinality(S)} :
        \A i, j \in 1..Len(s) : i # j => s[i] # s[j]}

\* ------------------------------------------------ concurrent transactions
\* The store as concurrent runs see it.  A MERGE on a label with a
\* uniqueness constraint matches or creates under the lock of the
\* constraint; a MERGE on a label without one creates a node when the
\* transaction saw none, whatever has been committed since.  A MERGE of a
\* relationship locks the nodes it binds.

\* create_constraints, lines 502-517: the labels that carry a uniqueness
\* constraint
Constrained == {"Commit", "Identity", "Path", "Ref", "PGPKey", "IngestRun", "FileChange"}

\* the transactions of the run of worker w, in the order of process_git_data,
\* over a repository whose commit c3 merges c1 and c2 and is signed with
\* the key K1, as is its annotated tag v1.0.  match: the nodes a leading
\* MATCH binds; merge: the nodes MERGEd; edges: the relationships MERGEd
Alice == Node("Identity", GitIdentity("alice"))
TagV1 == Node("TagObject", "v1.0")
Head3 == Node("Commit", "c3")
KeyK1 == Node("PGPKey", "K1")

RunTransactions(w) ==
    << [name |-> "create_ingest_run", match |-> {},
        merge |-> {Node("IngestRun", w)}, edges |-> {}],
       [name |-> "batch_upsert_commits", match |-> {},
        merge |-> {Node("Commit", "c1"), Node("Commit", "c2"), Head3, Alice},
        edges |-> {<<"AUTHORED", Alice, Node("Commit", c)>> : c \in {"c1", "c2", "c3"}}
                    \cup {<<"COMMITTED", Alice, Node("Commit", c)>> : c \in {"c1", "c2", "c3"}}
                    \cup {<<"HAS_PARENT", Head3, Node("Commit", c)>> : c \in {"c1", "c2"}}],
       [name |-> "snapshot_refs", match |-> {Node("IngestRun", w)},
        merge |-> {Node("Ref", <<"branch", "master", "">>), Head3,
                   Node("RefState", <<"master", "branch", "", "c3">>)},
        edges |-> {<<"SAW_REF", Node("IngestRun", w),
                     Node("RefState", <<"master", "branch", "", "c3">>)>>,
                   <<"POINTS_TO", Node("RefState", <<"master", "branch", "", "c3">>), Head3>>,
                   <<"POINTS_TO", Node("Ref", <<"branch", "master", "">>), Head3>>}],
       [name |-> "upsert_tags", match |-> {},
        merge |-> {TagV1, Head3, Alice, Node("Ref", <<"tag", "v1.0", "">>)},
        edges |-> {<<"TAG_OF", TagV1, Head3>>, <<"TAGGED", Alice, TagV1>>,
                   <<"POINTS_TO", Node("Ref", <<"tag", "v1.0", "">>), TagV1>>}],
       [name |-> "batch_create_events", match |-> {},
        merge |-> {Node("Event", <<"commit_authored", "git", 3>>)},
        edges |-> {<<"ABOUT", Node("Event", <<"commit_authored", "git", 3>>), Head3>>}],
       [name |-> "batch_upsert_pgp_keys", match |-> {}, merge |-> {KeyK1}, edges |-> {}],
       [name |-> "batch_create_signatures", match |-> {Head3}, merge |-> {KeyK1},
        edges |-> {<<"HAS_SIGNATURE", Head3, KeyK1>>}],
       [name |-> "batch_create_signatures", match |-> {TagV1}, merge |-> {KeyK1},
        edges |-> {<<"HAS_SIGNATURE", TagV1, KeyK1>>}],
       [name |-> "batch_create_merged_includes", match |-> {Head3}, merge |-> {},
        edges |-> {<<"MERGED_INCLUDES", Head3, Node("Commit", "c2")>>}] >>

Transactions ==
    UNION {{RunTransactions(w)[k] : k \in 1..Len(RunTransactions(w))} : w \in Workers}
StoreNodes == UNION {t.merge : t \in Transactions}
StoreRels == UNION {t.edges : t \in Transactions}

NoCopies == [n \in StoreNodes |-> 0]
NoRels == [e \in StoreRels |-> 0]
NotOpen == [k |-> 1, open |-> FALSE, absent |-> {}]

Max(a, b) == IF a >= b THEN a ELSE b

\* what the transaction t sees missing when its statement runs
SeenAbsent(c, t) == {n \in t.merge : c[n] = 0}

\* a MERGE that holds no lock between its match and its create, on every
\* label: the variant the uniqueness of the constrained labels must reject
MergedCopiesNoLock(c, t, absent) ==
    [n \in StoreNodes |->
        IF n \in t.merge /\ n \in absent THEN c[n] + 1 ELSE c[n]]

\* the nodes after the MERGEs of t commit, absent being what t saw missing
MergedCopies(c, t, absent) ==
    [n \in StoreNodes |->
        IF n \notin t.merge THEN c[n]
        ELSE IF n[1] \in Constrained THEN Max(c[n], 1)
        ELSE IF n \in absent THEN c[n] + 1
        ELSE c[n]]

\* the relationships after the MERGEs of t: one between every pair of
\* nodes the pattern binds
MergedRels(r, c, t) ==
    [e \in StoreRels |-> IF e \in t.edges THEN Max(r[e], c[e[2]] * c[e[3]]) ELSE r[e]]

\* the transaction t commits on the store st: nothing when its MATCH
\* binds no node
CommitOf(st, t, absent) ==
    IF \E n \in t.match : st.copies[n] = 0 THEN st
    ELSE LET c == MergedCopies(st.copies, t, absent)
         IN [copies |-> c, rels |-> MergedRels(st.rels, c, t)]

\* the run of worker w alone, from its transaction k on
RECURSIVE RunAlone(_, _, _)
RunAlone(st, w, k) ==
    IF k > Len(RunTransactions(w)) THEN st
    ELSE RunAlone(CommitOf(st, RunTransactions(w)[k],
                           SeenAbsent(st.copies, RunTransactions(w)[k])), w, k + 1)

ConcInit ==
    /\ copies = NoCopies
    /\ rels = NoRels
    /\ txn = [w \in Workers |-> NotOpen]


\* ------------------------------------------------ neo4j_driver.py: FileChange repair
MaxFileChanges == 4      \* FileChange nodes in the store

FileChangeIds == 1..MaxFileChanges
FileChangeKeys == {<<"c1", "README.md">>, <<"c1", "src/a.py">>, <<"c2", "README.md">>}

\* collect(fc) per fc.commit_hash, fc.path
NodesOf(fc, key) == {i \in FileChangeIds : fc[i] = key}

\* WHERE size(nodes) > 1
DuplicateGroups(fc) == {key \in FileChangeKeys : Cardinality(NodesOf(fc, key)) > 1}

RECURSIVE SumOver(_, _)
SumOver(S, f) ==
    IF S = {} THEN 0
    ELSE LET x == CHOOSE y \in S : TRUE IN f[x] + SumOver(S \ {x}, f)

\* a cleanup that only reports: the variant the repair must reject
check_and_cleanup_filechange_duplicates_report_only(fc, cleanup, first) ==
    LET duplicates == DuplicateGroups(fc)
    IN [store |-> fc, duplicate_groups |-> Cardinality(duplicates),
        duplicate_nodes |->
            SumOver(duplicates, [key \in duplicates |-> Cardinality(NodesOf(fc, key)) - 1]),
        deleted_count |-> 0]

\* check_and_cleanup_filechange_duplicates(cleanup); first: per group the
\* node collect(fc) lists first, nodes[0]
check_and_cleanup_filechange_duplicates(fc, cleanup, first) ==
    LET duplicates == DuplicateGroups(fc)
        total_duplicate_nodes ==
            SumOver(duplicates, [key \in duplicates |-> Cardinality(NodesOf(fc, key)) - 1])
        to_delete == UNION {NodesOf(fc, key) \ {first[key]} : key \in duplicates}
    IN IF duplicates # {} /\ cleanup
       THEN [store |-> [i \in FileChangeIds |-> IF i \in to_delete THEN None ELSE fc[i]],
             duplicate_groups |-> Cardinality(duplicates),
             duplicate_nodes |-> total_duplicate_nodes,
             deleted_count |-> Cardinality(to_delete)]
       ELSE [store |-> fc, duplicate_groups |-> Cardinality(duplicates),
             duplicate_nodes |-> total_duplicate_nodes, deleted_count |-> 0]

\* the orders collect(fc) may list the nodes of the groups in: per group of
\* fc one of its nodes comes first
FirstNodes(fc) ==
    {f \in [FileChangeKeys -> FileChangeIds \cup {0}] :
        \A key \in FileChangeKeys :
            IF NodesOf(fc, key) = {} THEN f[key] = 0 ELSE f[key] \in NodesOf(fc, key)}

NoSchema ==
    [issued |-> FALSE, constraint |-> FALSE, cleanup |-> FALSE, before |-> <<>>,
     atIssue |-> <<>>, duplicate_groups |-> 0, duplicate_nodes |-> 0, deleted_count |-> 0]

SchemaInit ==
    /\ fileChanges = [i \in FileChangeIds |-> None]
    /\ schema = NoSchema


\* ------------------------------------------------ neo4j_driver.py: Neo4jDriver()
MaxRetries == 3          \* max_retries of a call is 0..MaxRetries (5 by default)
MaxDelay == 2            \* retry_delay of a call is 1..MaxDelay (2 by default)

NoConnection ==
    [state |-> "none", max_retries |-> 0, retry_delay |-> 0, attempt |-> 0,
     run_id |-> 1, log |-> <<>>, slept |-> 0]

\* an except clause that gives up silently after the last attempt: the
\* variant the retry property must reject
OnConnectErrorNoRaise(c) ==
    [c EXCEPT !.log = Append(@, "failed"),
              !.state = IF c.attempt < c.max_retries - 1 THEN "sleeping" ELSE "connected"]

\* lines 35-40: the except clause of attempt c.attempt
OnConnectError(c) ==
    [c EXCEPT !.log = Append(@, "failed"),
              !.state = IF c.attempt < c.max_retries - 1 THEN "sleeping" ELSE "raised"]

\* lines 27-34: GraphDatabase.driver and verify_connectivity succeed, break
OnConnected(c) == [c EXCEPT !.log = Append(@, "connected"), !.state = "connected"]

ConnectionInit == connection = NoConnection


\* ------------------------------------------------ file_change_processor.py
\* the strings of the module and of the histories, character by character
Text ==
    [ SrcPolicyFooCpp |->
        <<"s", "r", "c", "/", "p", "o", "l", "i", "c", "y", "/", "f", "o", "o", ".",
            "c", "p", "p">>,
      ReadmeMd |->
        <<"R", "E", "A", "D", "M", "E", ".", "m", "d">>,
      DocSrcPolicyMd |->
        <<"d", "o", "c", "/", "s", "r", "c", "/", "p", "o", "l", "i", "c", "y", ".",
            "m", "d">>,
      SrcPolicy |->
        <<"s", "r", "c", "/", "p", "o", "l", "i", "c", "y">>,
      SrcConsensus |->
        <<"s", "r", "c", "/", "c", "o", "n", "s", "e", "n", "s", "u", "s">>,
      SrcRpcMempoolCpp |->
        <<"s", "r", "c", "/", "r", "p", "c", "/", "m", "e", "m", "p", "o", "o", "l",
            ".", "c", "p", "p">>,
      ContribVerifyCommits |->
        <<"c", "o", "n", "t", "r", "i", "b", "/", "v", "e", "r", "i", "f", "y", "-",
            "c", "o", "m", "m", "i", "t", "s">>,
      ContribVerifyBinaries |->
        <<"c", "o", "n", "t", "r", "i", "b", "/", "v", "e", "r", "i", "f", "y", "-",
            "b", "i", "n", "a", "r", "i", "e", "s">>,
      X |->
        <<"x", " ", "=", " ", "1", ";">>,
      PlusPlusI |->
        <<"+", "+", "i", ";">>,
      DashDashC |->
        <<"-", "-", " ", "c">>,
      HunkHeader |->
        <<"@", "@", " ", "-", "1", " ", "+", "1", ",", "2", " ", "@", "@">>,
      MinusHeader |->
        <<"-", "-", "-", " ", "a", "/", "f", "i", "l", "e">>,
      PlusHeader |->
        <<"+", "+", "+", " ", "b", "/", "f", "i", "l", "e">>,
      Plus |->
        <<"+">>,
      Minus |->
        <<"-">>,
      Space |->
        <<" ">>,
      PlusPlusPlus |->
        <<"+", "+", "+">>,
      MinusMinusMinus |->
        <<"-", "-", "-">> ]

\* SENSITIVE_PATHS, lines 9-15
SENSITIVE_PATHS ==
    {Text.SrcPolicy, Text.SrcConsensus, Text.SrcRpcMempoolCpp, Text.ContribVerifyCommits,
     Text.ContribVerifyBinaries}

\* str.startswith(prefix)
startswith(str, prefix) == LitAt(str, 1, prefix, FALSE)

\* a test for the prefix anywhere in the path: the variant the sensitivity
\* flag must reject
is_sensitive_path_anywhere(path, sensitive_paths) ==
    \E prefix \in sensitive_paths : Contains(path, prefix)

\* any(path.startswith(prefix) for prefix in sensitive_paths), lines 21, 88
is_sensitive_path(path, sensitive_paths) ==
    \E prefix \in sensitive_paths : startswith(path, prefix)

\* the paths of the histories, in the order of their names, and the
\* contents of their files, line by line
TreePaths == <<Text.ReadmeMd, Text.DocSrcPolicyMd, Text.SrcPolicyFooCpp>>
Blobs ==
    << <<Text.X>>, <<Text.X, Text.PlusPlusI>>, <<Text.X, Text.DashDashC>> >>

PathIds == 1..Len(TreePaths)
\* a tree: per path the blob it holds, 0 without the path
Trees == [PathIds -> 0..Len(Blobs)]
NULL_TREE == [i \in PathIds |-> 0]

\* the lines of the unified diff of the blobs a and b (0: no file): the
\* common leading lines as context, then the lines of a removed, then
\* the lines of b added
LinesOf(blob) == IF blob = 0 THEN <<>> ELSE Blobs[blob]

CommonPrefix(x, y) ==
    Cardinality({k \in 1..Min(Len(x), Len(y)) : \A j \in 1..k : x[j] = y[j]})

Hunk(a, b) ==
    LET x == LinesOf(a)
        y == LinesOf(b)
        n == CommonPrefix(x, y)
    IN [k \in 1..n |-> [kind |-> "context", content |-> x[k]]]
         \o [k \in 1..(Len(x) - n) |-> [kind |-> "removed", content |-> x[n + k]]]
         \o [k \in 1..(Len(y) - n) |-> [kind |-> "added", content |-> y[n + k]]]

\* the text of a patch: the file header when the patch carries one, the
\* hunk header, and the lines of the hunk behind ' ', '-' and '+'
Marker(kind) ==
    CASE kind = "context" -> Text.Space
      [] kind = "removed" -> Text.Minus
      [] kind = "added" -> Text.Plus

RECURSIVE JoinLines(_)
JoinLines(lines) ==
    IF lines = <<>> THEN <<>>
    ELSE Head(lines) \o <<"\n">> \o JoinLines(Tail(lines))

PatchText(hunk, file_header) ==
    IF hunk = <<>> THEN <<>>
    ELSE JoinLines((IF file_header THEN <<Text.MinusHeader, Text.PlusHeader>> ELSE <<>>)
                     \o <<Text.HunkHeader>>
                     \o [k \in 1..Len(hunk) |-> Marker(hunk[k].kind) \o hunk[k].content])

\* str.split(sep), sep one character
RECURSIVE split(_, _)
split(str, sep) ==
    IF \A i \in 1..Len(str) : str[i] # sep THEN <<str>>
    ELSE LET k == CHOOSE i \in 1..Len(str) : str[i] = sep /\ \A j \in 1..(i - 1) : str[j] # sep
         IN <<SubSeq(str, 1, k - 1)>> \o split(SubSeq(str, k + 1, Len(str)), sep)

\* lines 66-86: the counts of the lines that start with '+' and with '-'
CountLines(diff_text) ==
    LET lines == IF diff_text = <<>> THEN <<>> ELSE split(diff_text, "\n")
    IN [add |-> Cardinality({i \in 1..Len(lines) :
                                startswith(lines[i], Text.Plus)
                                  /\ ~startswith(lines[i], Text.PlusPlusPlus)}),
        del |-> Cardinality({i \in 1..Len(lines) :
                                startswith(lines[i], Text.Minus)
                                  /\ ~startswith(lines[i], Text.MinusMinusMinus)})]

\* git diff-tree -M a b: the paths b lacks, the paths a lacks, and the
\* renames, a path of a that b lacks whose blob b holds under a new path
Lacking(a, b) == {i \in PathIds : a[i] # 0 /\ b[i] = 0}

First(S) == CHOOSE i \in S : \A j \in S : i <= j

Renames(a, b) ==
    {r \in Lacking(a, b) \X Lacking(b, a) :
        /\ a[r[1]] = b[r[2]]
        /\ r[1] = First({p \in Lacking(a, b) : a[p] = b[r[2]]})
        /\ r[2] = First({q \in Lacking(b, a) : b[q] = a[r[1]]})}

\* Diffable.diff(other, create_patch=True): the Diff objects from the tree
\* self to the tree other, with a_path on the side of self
diff(self, other, file_header) ==
    LET renamed == Renames(self, other)
    IN {[a_path |-> TreePaths[r[1]], b_path |-> TreePaths[r[2]], new_file |-> FALSE,
         deleted_file |-> FALSE, renamed_file |-> TRUE, diff |-> <<>>, hunk |-> <<>>] :
           r \in renamed}
         \cup
       {[a_path |-> TreePaths[i], b_path |-> TreePaths[i],
         new_file |-> self[i] = 0, deleted_file |-> other[i] = 0, renamed_file |-> FALSE,
         diff |-> PatchText(Hunk(self[i], other[i]), file_header),
         hunk |-> Hunk(self[i], other[i])] :
           i \in {j \in PathIds : /\ self[j] # other[j]
                                   /\ \A r \in renamed : j # r[1] /\ j # r[2]}}

\* lines 52-98: the change of one Diff
ChangeOf(d, sensitive_paths) ==
    LET status == IF d.new_file THEN "A"
                  ELSE IF d.deleted_file THEN "D"
                  ELSE IF d.renamed_file THEN "R"
                  ELSE "M"
        path == IF d.b_path # <<>> THEN d.b_path ELSE d.a_path
        counts == CountLines(d.diff)
    IN [path |-> path, status |-> status, add |-> counts.add, del |-> counts.del,
        rename_from |-> IF d.renamed_file /\ d.a_path # path THEN Some(d.a_path) ELSE None,
        isSensitive |-> is_sensitive_path(path, sensitive_paths),
        hunk |-> d.hunk]

\* compute_file_changes(commit): diffs is commit.diff(None) for a root
\* commit, which compares with the working tree, and
\* commit.diff(commit.parents[0]) otherwise
compute_file_changes(t, sensitive_paths) ==
    {ChangeOf(d, sensitive_paths) : d \in diff(t.commit, t.other, t.file_header)}

NoTrees == [root |-> FALSE, commit |-> NULL_TREE, other |-> NULL_TREE, file_header |-> FALSE]

ChangesInit == trees = NoTrees /\ all_changes = None

\* ------------------------------------------------ git_processor.py: folder statistics
\* the paths the statistics are asked for; no commit touches the last one
Pathspecs == {"src/policy", "src/consensus", "src/rpc/mempool.cpp", "does/not/exist"}
TouchedPaths == {"src/policy", "src/consensus"}

\* the tips `--all` starts from: every ref that exists (HEAD is one of them)
Tips == {refs[r] : r \in {x \in RefNames : refs[x] # 0}}

\* repo.iter_commits(all=True, paths=p): the walk from all tips, of which
\* git keeps the commits its path limiting selects for p
iter_commits_all(paths) ==
    LET Selected(c) == paths \in touched[c]
    IN SelectSeq(WalkFrom(Tips, Tips, <<>>), Selected)

\* lines 168-198 with the author names kept in a list: the variant the
\* counting property must reject
find_relevant_commits_author_list(folder_or_file_path) ==
    LET commits_for_file == iter_commits_all(folder_or_file_path)
        unique_authors == [i \in 1..Len(commits_for_file) |-> Author(commits_for_file[i])]
    IN IF refs["master"] = 0 THEN Raised
       ELSE [raised |-> FALSE,
             master_sha_at_collection |-> refs["master"],
             file_paths |-> folder_or_file_path,
             length_of_unique_authors |-> Len(unique_authors),
             unique_author_names |-> SeqToSet(unique_authors),
             length_of_all_commits |-> Len(commits_for_file)]

\* find_relevant_commits, lines 168-198: the commits of the walk, the set of
\* their author names, and the tip of the branch named master, whose lookup
\* raises when the repository has no such branch (line 187)
find_relevant_commits(folder_or_file_path) ==
    LET commits_for_file == iter_commits_all(folder_or_file_path)
        unique_authors == {Author(commits_for_file[i]) : i \in 1..Len(commits_for_file)}
    IN IF refs["master"] = 0 THEN Raised
       ELSE [raised |-> FALSE,
             master_sha_at_collection |-> refs["master"],
             file_paths |-> folder_or_file_path,
             length_of_unique_authors |-> Cardinality(unique_authors),
             unique_author_names |-> unique_authors,
             length_of_all_commits |-> Len(commits_for_file)]

\* find_commits_in_repo, lines 201-208: the walk from HEAD, oldest first
find_commits_in_repo ==
    LET commits == iter_commits(refs[HEAD])
    IN [i \in 1..Len(commits) |-> commits[Len(commits) + 1 - i]]

\* ------------------------------------------------ neo4j_driver.py: import status
\* merge_import_status, lines 335-358: MERGE (a:ImportStatus), both flags
\* false on create; the node as it is afterwards
merge_import_status(node) ==
    IF node = None THEN [git_import_complete |-> FALSE, next_complete |-> FALSE] ELSE node

\* merge_get_import_status_node, lines 386-405
merge_get_import_status_node(node) ==
    [merge_import_status(node) EXCEPT !.git_import_complete = TRUE]

\* insert_folder_level_details, lines 317-333: MERGE on the master hash and
\* the path, the blob is set on create only
insert_folder_level_details(details, data) ==
    IF \E f \in details : /\ f.master_sha_at_collection = data.master_sha_at_collection
                          /\ f.file_path = data.file_paths
    THEN details
    ELSE details \cup {[master_sha_at_collection |-> data.master_sha_at_collection,
                        file_path |-> data.file_paths,
                        json_blob |-> data]}

\* git_processor.py lines 132-141: process_path_into_db for each active
\* path; the exception of a path ends the loop and leaves the call
RECURSIVE ProcessPaths(_, _, _)
ProcessPaths(details, active_paths, i) ==
    IF i > Len(active_paths) THEN [details |-> details, raised |-> FALSE]
    ELSE LET relevant_data == find_relevant_commits(active_paths[i])
         IN IF relevant_data.raised THEN [details |-> details, raised |-> TRUE]
            ELSE ProcessPaths(insert_folder_level_details(details, relevant_data),
                              active_paths, i + 1)

default_paths == <<"src/policy", "src/consensus", "src/rpc/mempool.cpp">>

\* the parameters of process_git_data, lines 36-43: use_new_schema is True
\* unless the caller passes it
NoArgs == [state |-> "none", folder_paths |-> None, passed |-> None, use_new_schema |-> TRUE]

BindArgs(folder_paths, use_new_schema) ==
    [state |-> "called", folder_paths |-> folder_paths, passed |-> use_new_schema,
     use_new_schema |-> IF use_new_schema = None THEN TRUE ELSE use_new_schema[1]]

LegacyInit ==
    /\ touched = <<>>
    /\ relevant = None
    /\ importStatus = None
    /\ fileDetails = {}
    /\ args = NoArgs

\* ------------------------------------------------ app.py: the status page
MaxLookups == 2          \* requests of the status page

\* get_ingest_run_status, neo4j_driver.py lines 699-728: the dictionary of
\* the record's properties, None without record
status_info(runs, id) ==
    IF runs[id].exists
    THEN Some([status |-> runs[id].status,
               totalCommitsProcessed |-> runs[id].totalCommitsProcessed,
               totalSignaturesProcessed |-> runs[id].totalSignaturesProcessed,
               totalMergesProcessed |-> runs[id].totalMergesProcessed])
    ELSE None

Redirect == [code |-> 302, error |-> "none", info |-> None]
Failure(error) == [code |-> 500, error |-> error, info |-> None]

\* ingest_status without the inner try: the variant the lookup property
\* must reject
ingest_status_unguarded(runs, id, connects, fails) ==
    IF ~connects THEN Failure("connect")
    ELSE IF fails THEN Failure("store")
    ELSE IF status_info(runs, id) = None THEN Redirect
    ELSE [code |-> 200, error |-> "none", info |-> status_info(runs, id)]

\* ingest_status, app.py lines 250-264: Neo4jDriver() stands before the try
\* and raises its own exception after the last attempt; an exception of the
\* query is caught and read as no record; without record the answer is the
\* redirect to the start page, otherwise the page of the record
ingest_status(runs, id, connects, fails) ==
    IF ~connects THEN Failure("connect")
    ELSE LET info == IF fails THEN None ELSE status_info(runs, id)
         IN IF info = None THEN Redirect
            ELSE [code |-> 200, error |-> "none", info |-> info]

NoResponse == [n |-> 0, run_id |-> 0, connects |-> TRUE, fails |-> FALSE] @@ Redirect

StatusInit == response = NoResponse

\* ------------------------------------------------ signature_extractor.py: the streams
\* `git show --show-signature` writes the header of the artefact, its
\* message (indented) and its diff to the standard output; the report of
\* gpg on a signed artefact goes to the standard output or to the standard
\* error, depending on the version of the tool.
GpgLines == {1, 6, 10}            \* reports of gpg, as indexes of Lines
BodyLines == {1, 6, 10, 11, 12}   \* lines a message or a diff may hold
Indent == <<" ", " ", " ", " ">>

NoStreams == [artifact |-> "none", body |-> <<>>, gpg |-> <<>>, on |-> "stdout"]

Bodies == UNION {[1..n -> BodyLines] : n \in 0..MaxLines}
Reports == {<<>>} \cup {<<i>> : i \in GpgLines}

Stdout(s) ==
    JoinLines(<<Sample.Commit \o Sample.CommitHash>>
              \o (IF s.on = "stdout" THEN [k \in 1..Len(s.gpg) |-> Lines[s.gpg[k]]] ELSE <<>>)
              \o [k \in 1..Len(s.body) |-> Indent \o Lines[s.body[k]]])

Stderr(s) ==
    JoinLines(IF s.on = "stderr" THEN [k \in 1..Len(s.gpg) |-> Lines[s.gpg[k]]] ELSE <<>>)

\* extract_commit_signature, lines 41-50: output = stdout + '\n' + stderr
commit_output(stdout, stderr) == stdout \o <<"\n">> \o stderr

\* extract_tag_signature, lines 123-129: output = result.stdout.decode(...)
tag_output(stdout, stderr) == stdout

StreamsInit == streams = NoStreams

\* every object is readable and no signature stage is under way
NoSigRun == [phase |-> "none"]
FaultInit == broken = 0 /\ sigRun = NoSigRun

MoreInit ==
    ConcInit /\ SchemaInit /\ ConnectionInit /\ ChangesInit /\ LegacyInit /\ StatusInit
    /\ StreamsInit
    /\ FaultInit

\* ------------------------------------------------ initial values
NotCalled == [op |-> "none", failed |-> FALSE, found |-> FALSE, fingerprint |-> <<>>]

\* what the stage calls so far have done, carried from call to call
NoStage ==
    [stage |-> "none", selected |-> {}, fault |-> <<>>, checkedBefore |-> {},
     signedBefore |-> {}, rerun |-> FALSE, total_signed |-> 0, total_unsigned |-> 0,
     commits |-> 0, computed |-> {}, computedBefore |-> {}]

ExtractInit == output = <<>> /\ extraction = NotCalled

EnrichInit ==
    /\ gitShow = <<>>
    /\ tagShow = <<>>
    /\ tagObjects = {}
    /\ pgpKeys = {}
    /\ hasSignature = {}
    /\ stageRun = NoStage

BatchInit == graph = EmptyGraph /\ batchCall = NoCall

AuxInit == ExtractInit /\ EnrichInit /\ BatchInit /\ MoreInit

\* ------------------------------------------------ the signature stages
\* The outputs `git show --show-signature` and `git tag -v` print for the
\* commits and tags of the stages below: a signed object (gpg prints the
\* signing key and the primary key), one whose primary line is separated by
\* tabs, a tab-separated primary line alone, and an unsigned object.
ShowOutputs == {<<6, 1>>, <<6, 4>>, <<4>>, <<11, 12>>}

\* a commit or a tag of the repository: what the tool prints for it and what
\* the extractor returns for it (fails: the subprocess times out)
ShownCommits ==
    {[output |-> o,
      signature |-> [fails \in BOOLEAN |-> extract_commit_signature(TextOf(o), fails)]] :
        o \in ShowOutputs}
ShownTags ==
    {[annotated |-> a, output |-> o,
      signature |-> [fails \in BOOLEAN |-> extract_tag_signature(a, TextOf(o), fails)]] :
        a \in BOOLEAN, o \in ShowOutputs}

\* how the extraction of one item ends: normally, with the timeout of the
\* subprocess (caught in the extractor), or with an exception of
\* repo.commit(sha) / repo.tags[name] (caught in the loop of the stage)
Faults == {"ok", "timeout", "raise"}
MaxFaults == 1           \* items of one stage call whose extraction fails
FaultMaps(S) ==
    {f \in [S -> Faults] : Cardinality({x \in S : f[x] # "ok"}) <= MaxFaults}

\* BATCH_SIZE is 100 in process_commit_signatures and process_merged_includes;
\* here it is scaled to the size of the repositories, so that the flush
\* inside the loop happens
BATCH_SIZE == 2

\* lines 673: len(fingerprint) != 40 or not all(c in '0123456789ABCDEF' ...)
ValidFormat(fingerprint) ==
    /\ Len(fingerprint) = FingerprintLength
    /\ \A k \in 1..Len(fingerprint) : fingerprint[k] \in UpperHex

\* the order the selected commits are processed in (committedAt DESC)
RECURSIVE OrderByDate(_)
OrderByDate(S) ==
    IF S = {} THEN <<>>
    ELSE LET c == CHOOSE x \in S : \A y \in S : ~SigBefore(y, x) \/ y = x
         IN <<c>> \o OrderByDate(S \ {c})

\* batch_upsert_pgp_keys, batch_create_signatures (MATCH the artifact, MERGE
\* the key and the edge) and batch_mark_commits_checked_for_signatures, as
\* the stage calls them: lines 711-726 and 748-760
FlushSignatures(st) ==
    LET edges == {<<r.artifact_type, r.artifact_id, r.fingerprint>> :
                     r \in {x \in SeqToSet(st.signature_rows) :
                              \/ x.artifact_type = "Commit" /\ x.artifact_id \in commitNodes
                              \/ x.artifact_type = "TagObject" /\ x.artifact_id \in tagObjects}}
    IN [st EXCEPT !.keys = @ \cup SeqToSet(st.key_rows) \cup {e[3] : e \in edges},
                  !.sigs = @ \cup edges,
                  !.checked = @ \cup (SeqToSet(st.processed) \cap commitNodes),
                  !.key_rows = <<>>, !.signature_rows = <<>>, !.processed = <<>>]

\* the `continue` of lines 678 and 709 leaves the iteration before the flush
\* of line 712
FlushIfBatchFull(st, i, continued) ==
    IF ~continued /\ i % BATCH_SIZE = 0 THEN FlushSignatures(st) ELSE st

\* an except clause that also gives up the rows collected since the last
\* flush: the variant the fail-soft property must reject
OnCommitErrorDropsRows(st, sha) ==
    [st EXCEPT !.total_unsigned = @ + 1, !.processed = Append(@, sha),
               !.key_rows = <<>>, !.signature_rows = <<>>, !.seen_fingerprints = {}]

\* the except clause of the loop, lines 699-709: the commit counts as
\* unsigned and as processed
OnCommitError(st, sha) ==
    [st EXCEPT !.total_unsigned = @ + 1, !.processed = Append(@, sha)]

\* one iteration of the loop of process_commit_signatures, lines 661-726,
\* for the commit sha whose extraction returned sig_data
CommitSignatureStep(st, i, sha, sig_data, fault) ==
    IF fault = "raise"
    THEN FlushIfBatchFull(OnCommitError(st, sha), i, TRUE)
    ELSE IF ~(sig_data.found /\ sig_data.fingerprint # <<>>)
    THEN FlushIfBatchFull([st EXCEPT !.total_unsigned = @ + 1,
                                     !.processed = Append(@, sha)], i, FALSE)
    ELSE IF ~ValidFormat(sig_data.fingerprint)
    THEN FlushIfBatchFull([st EXCEPT !.total_unsigned = @ + 1,
                                     !.processed = Append(@, sha)], i, TRUE)
    ELSE FlushIfBatchFull(
           [st EXCEPT
              !.processed = Append(@, sha),
              !.key_rows = IF sig_data.fingerprint \in st.seen_fingerprints THEN @
                           ELSE Append(@, sig_data.fingerprint),
              !.seen_fingerprints = @ \cup {sig_data.fingerprint},
              !.signature_rows =
                  Append(@, [artifact_type |-> "Commit", artifact_id |-> sha,
                             fingerprint |-> sig_data.fingerprint]),
              !.total_signed = @ + 1], i, FALSE)

\* one iteration of the loop of process_tag_signatures, lines 822-849: the
\* fingerprint is stored as the extractor returned it
TagSignatureStep(st, tag_name, sig_data, fault) ==
    IF fault = "raise" THEN st
    ELSE IF sig_data.found /\ sig_data.fingerprint # <<>>
    THEN [st EXCEPT
            !.key_rows = IF sig_data.fingerprint \in st.seen_fingerprints THEN @
                         ELSE Append(@, sig_data.fingerprint),
            !.seen_fingerprints = @ \cup {sig_data.fingerprint},
            !.signature_rows =
                Append(@, [artifact_type |-> "TagObject", artifact_id |-> tag_name,
                           fingerprint |-> sig_data.fingerprint]),
            !.total_signed = @ + 1]
    ELSE st

\* the loop of the commit stage (commits: TRUE) or of the tag stage
RECURSIVE SignatureLoop(_, _, _, _, _)
SignatureLoop(st, i, items, fault, commits) ==
    IF i > Len(items) THEN st
    ELSE SignatureLoop(
           IF commits
           THEN CommitSignatureStep(st, i, items[i],
                                    gitShow[items[i]].signature[fault[items[i]] = "timeout"],
                                    fault[items[i]])
           ELSE TagSignatureStep(st, items[i],
                                 tagShow[items[i]].signature[fault[items[i]] = "timeout"],
                                 fault[items[i]]),
           i + 1, items, fault, commits)

LoopStart ==
    [key_rows |-> <<>>, signature_rows |-> <<>>, processed |-> <<>>,
     seen_fingerprints |-> {}, total_signed |-> 0, total_unsigned |-> 0,
     keys |-> pgpKeys, sigs |-> hasSignature, checked |-> sigChecked]

\* the stage without the final flush of lines 748-760: the variant the
\* resumability property must reject
process_commit_signatures_no_final_flush(S, fault) ==
    SignatureLoop(LoopStart, 1, OrderByDate(S), fault, TRUE)

\* process_commit_signatures on the selection S: the loop, then the final
\* flush of lines 748-760
process_commit_signatures(S, fault) ==
    FlushSignatures(SignatureLoop(LoopStart, 1, OrderByDate(S), fault, TRUE))

\* ---- the commit stage transaction by transaction
\* lines 661-710 of one iteration: what it collects.  The index is one at
\* which line 712 does not flush; the flush is taken apart below
Collect(st, sha, sig_data, fault) ==
    CommitSignatureStep(st, BATCH_SIZE + 1, sha, sig_data, fault)

\* the iteration reaches line 712 (no `continue` of line 678 or 709) and
\* the batch is full
ReachesFlush(i, sig_data, fault) ==
    /\ i % BATCH_SIZE = 0
    /\ fault # "raise"
    /\ ~(sig_data.found /\ sig_data.fingerprint # <<>> /\ ~ValidFormat(sig_data.fingerprint))

\* lines 714-716 and 748-750: batch_upsert_pgp_keys, its own transaction
FlushKeys(st) ==
    [st EXCEPT !.keys = @ \cup SeqToSet(st.key_rows), !.key_rows = <<>>]

\* lines 719-721 and 752-754: batch_create_signatures, its own transaction
\* (MATCH the artifact, MERGE the key, MERGE the edge)
FlushEdges(st) ==
    LET edges == {<<r.artifact_type, r.artifact_id, r.fingerprint>> :
                     r \in {x \in SeqToSet(st.signature_rows) :
                              x.artifact_type = "Commit" /\ x.artifact_id \in commitNodes}}
    IN [st EXCEPT !.keys = @ \cup {e[3] : e \in edges}, !.sigs = @ \cup edges,
                  !.signature_rows = <<>>]

\* lines 724-726 and 757-759: batch_mark_commits_checked_for_signatures, its
\* own transaction
FlushMarks(st) ==
    [st EXCEPT !.checked = @ \cup (SeqToSet(st.processed) \cap commitNodes),
               !.processed = <<>>]

\* a flush that marks the commits before it writes their edges: the variant
\* the crash-safety property must reject
FlushTransactionMarksFirst(phase, st) ==
    CASE phase = "keys" -> FlushKeys(st)
      [] phase = "sigs" -> FlushMarks(st)
      [] phase = "marks" -> FlushEdges(st)

\* the three transactions of a flush in the order of lines 713-726 and
\* 748-760: keys, signature edges, checked marks
FlushTransaction(phase, st) ==
    CASE phase = "keys" -> FlushKeys(st)
      [] phase = "sigs" -> FlushEdges(st)
      [] phase = "marks" -> FlushMarks(st)

PhaseAfter(phase, final) ==
    CASE phase = "keys" -> "sigs"
      [] phase = "sigs" -> "marks"
      [] phase = "marks" -> IF final THEN "done" ELSE "loop"

\* process_tag_signatures: the TagObjects without a HAS_SIGNATURE edge
TagSelection ==
    {t \in tagObjects : ~\E e \in hasSignature : e[1] = "TagObject" /\ e[2] = t}

RECURSIVE SetToSeq(_)
SetToSeq(S) ==
    IF S = {} THEN <<>>
    ELSE LET x == CHOOSE y \in S : TRUE IN <<x>> \o SetToSeq(S \ {x})

process_tag_signatures(fault) ==
    FlushSignatures(SignatureLoop(LoopStart, 1, SetToSeq(TagSelection), fault, FALSE))

\* process_merged_includes, lines 932-962: the merges whose ancestry is
\* computed (repo.commit did not raise) and the rows with a non-empty list.
\* fault[m] = "timeout" stands for an ancestry walk that raises inside
\* compute_merged_commits, "raise" for repo.commit(merge_sha) raising.
MergesComputed(fault) == {m \in MergeShas : fault[m] # "raise"}

MergeRows(fault) ==
    {r \in {[merge_sha |-> m,
             included_shas |-> compute_merged_commits(m, fault[m] = "timeout").value] :
               m \in MergesComputed(fault)} : r.included_shas # {}}

\* batch_create_merged_includes: an edge for every included commit the store
\* has a node for
MergedIncludesEdges(rows) ==
    UNION {{<<r.merge_sha, c>> : c \in r.included_shas \cap commitNodes} : r \in rows}

\* ------------------------------------------------ the stages as actions
\* process_commit_signatures(repo, db, commit_limit)
EnrichCommitSignatures(limit, S, fault) ==
    /\ S \in SigSelections(limit)
    /\ fault \in FaultMaps(S)
    /\ LET st == process_commit_signatures(S, fault)
       IN /\ pgpKeys' = st.keys
          /\ hasSignature' = st.sigs
          /\ sigChecked' = st.checked
          /\ stageRun' = [stageRun EXCEPT
                            !.stage = "csigs", !.selected = S, !.fault = fault,
                            !.checkedBefore = sigChecked,
                            !.signedBefore = SignedCommits,
                            !.rerun = stageRun.stage = "csigs",
                            !.total_signed = st.total_signed,
                            !.total_unsigned = st.total_unsigned]
    /\ UNCHANGED <<repoVars, commitNodes, imported, identities, refNodes, refPointsTo,
                   refStates, sawRef, events, mergedIncludes, ingestRuns, workerVars,
                   mergeResult, extractVars, gitShow, tagShow, tagObjects, batchVars, moreVars>>

\* process_tag_signatures(repo, db)
EnrichTagSignatures(fault) ==
    /\ fault \in FaultMaps(TagSelection)
    /\ LET st == process_tag_signatures(fault)
       IN /\ pgpKeys' = st.keys
          /\ hasSignature' = st.sigs
          /\ stageRun' = [stageRun EXCEPT
                            !.stage = "tsigs", !.selected = TagSelection, !.fault = fault,
                            !.rerun = stageRun.stage = "tsigs",
                            !.total_signed = st.total_signed,
                            !.total_unsigned = Cardinality(TagSelection) - st.total_signed]
    /\ UNCHANGED <<repoVars, storeVars, workerVars, mergeResult, extractVars, gitShow,
                   tagShow, tagObjects, batchVars, moreVars>>

\* process_merged_includes(repo, db)
EnrichMergedIncludes(fault) ==
    /\ fault \in FaultMaps(MergeShas)
    /\ mergedIncludes' = mergedIncludes \cup MergedIncludesEdges(MergeRows(fault))
    /\ stageRun' = [stageRun EXCEPT
                      !.stage = "merges", !.selected = MergeShas, !.fault = fault,
                      !.rerun = stageRun.stage = "merges" /\ stageRun.commits = Len(parents),
                      !.commits = Len(parents),
                      !.computedBefore = stageRun.computed,
                      !.computed = @ \cup MergesComputed(fault)]
    /\ UNCHANGED <<repoVars, commitNodes, imported, identities, refNodes, refPointsTo,
                   refStates, sawRef, events, sigChecked, ingestRuns, workerVars,
                   mergeResult, extractVars, gitShow, tagShow, tagObjects, pgpKeys,
                   hasSignature, batchVars, moreVars>>

\* ------------------------------------------------ specification Spec
\* one worker runs process_git_data again and again over a repository that
\* changes between the runs
Init ==
    /\ parents = << <<>> >>
    /\ byDate = <<1>>
    /\ refs = [r \in RefNames |-> IF r = HEAD THEN 1 ELSE 0]
    /\ StoreInit
    /\ WorkersInit
    /\ mergeResult = NoResult
    /\ AuxInit

\* the steps of an invocation that nothing interrupts
Step(w) ==
    \/ CreateConstraints(w)
    \/ CreateIngestRun(w)
    \/ Discover(w)
    \/ Persist(w)
    \/ MarkCommitsComplete(w)
    \/ StageGate(w)
    \/ ProcessRefsAndTags(w)
    \/ ProcessFileChanges(w)
    \/ CreateGitEvents(w)
    \/ \E S \in SUBSET commitNodes : ProcessCommitSignatures(w, S)
    \/ UpdateSignaturesProcessed(w)
    \/ ProcessTagSignatures(w)
    \/ ProcessMergedIncludes(w)
    \/ UpdateMergesProcessed(w)
    \/ MarkCompleted(w)
    \/ Finally(w)
    \/ Return(w)

Next ==
    \/ \E b \in RefNames, pos \in 1..(Len(parents) + 1) :
          \E others \in OtherParents(refs[b]) : CommitOnBranch(b, others, pos)
    \/ \E b \in RefNames : CreateBranch(b, refs[HEAD])
    \/ \E b \in RefNames : DeleteBranch(b)
    \/ invocations < MaxRuns /\ Invoke("w1", invocations + 1, 0, FALSE)
    \/ Step("w1")

Spec == Init /\ [][Next]_vars


\* ------------------------------------------------ specification SpecMerge
\* compute_merged_commits applied to every commit of every bounded history:
\* the history is built commit by commit, with any parents and any commit
\* date, and then the function is called on one of its commits
MaxMergeParents == 3     \* parents per commit in SpecMerge (octopus merges)

ParentLists(c, k) ==
    {s \in UNION {[1..n -> 1..(c - 1)] : n \in 0..k} :
        \A i, j \in 1..Len(s) : i # j => s[i] # s[j]}

InitMerge ==
    /\ parents = << <<>> >>
    /\ byDate = <<1>>
    /\ refs = [r \in RefNames |-> 0]
    /\ mergeResult = NoResult
    /\ StoreInit
    /\ WorkersInit
    /\ AuxInit

AddCommit(ps, pos) ==
    /\ mergeResult = NoResult
    /\ Len(parents) < MaxCommits
    /\ parents' = Append(parents, ps)
    /\ byDate' = InsertAt(byDate, pos, Len(parents) + 1)
    /\ UNCHANGED <<refs, storeVars, workerVars, mergeResult, auxVars>>

ComputeMerged(m, walkFails) ==
    /\ mergeResult = NoResult
    /\ mergeResult' = [commit |-> m, failed |-> walkFails]
                        @@ compute_merged_commits(m, walkFails)
    /\ UNCHANGED <<repoVars, storeVars, workerVars, auxVars>>

NextMerge ==
    \/ \E ps \in ParentLists(Len(parents) + 1, MaxMergeParents),
          pos \in 1..(Len(parents) + 1) : AddCommit(ps, pos)
    \/ \E m \in Commits, walkFails \in BOOLEAN : ComputeMerged(m, walkFails)

SpecMerge == InitMerge /\ [][NextMerge]_vars

\* ------------------------------------------------ specification SpecRun
\* two workers run process_git_data concurrently over the repository of
\* tests/conftest.py; a store round trip may raise; the callers pass any run
\* id.  Worker w1 is the thread of app.py, which passes no driver, so that
\* the invocation opens and closes its own; w2 is a caller that passes its
\* driver, as the tests do
CallerRunIds == {id \in RunIds : id <= MaxRunIds}

PassesNoDriver(w) == w = "w1"

InitRun ==
    /\ parents = << <<>>, <<1>>, <<2>>, <<2>>, <<4, 3>> >>
    /\ byDate = <<5, 4, 3, 2, 1>>
    /\ refs = [r \in RefNames |-> IF r = HEAD THEN 5 ELSE 3]
    /\ StoreInit
    /\ WorkersInit
    /\ mergeResult = NoResult
    /\ AuxInit

NextRun ==
    \E w \in Workers :
        \/ invocations < MaxCalls /\ \E id \in CallerRunIds : Invoke(w, id, 0, PassesNoDriver(w))
        \/ Step(w)
        \/ Raise(w)

SpecRun == InitRun /\ [][NextRun]_vars

\* ------------------------------------------------ specification SpecEnrich
\* the signature stages called again and again on a store that holds the
\* commits of a repository of three commits and one tag; the objects are
\* signed or not, and the extraction of an item may fail
EnrichRepo == << <<>>, <<1>>, <<2>> >>

EnrichTags == {"v1.0"}

InitEnrich ==
    /\ parents = EnrichRepo
    /\ byDate = <<3, 2, 1>>
    /\ refs = [r \in RefNames |-> IF r = HEAD THEN Len(EnrichRepo) ELSE 0]
    /\ commitNodes = 1..Len(EnrichRepo)
    /\ imported = 1..Len(EnrichRepo)
    /\ identities = {Author(c) : c \in 1..Len(EnrichRepo)}
    /\ refNodes = {}
    /\ refPointsTo = {}
    /\ refStates = {}
    /\ sawRef = {}
    /\ events = {}
    /\ sigChecked = {}
    /\ mergedIncludes = {}
    /\ ingestRuns = [id \in RunIds |-> NoRun]
    /\ WorkersInit
    /\ mergeResult = NoResult
    /\ ExtractInit
    /\ gitShow \in [1..Len(EnrichRepo) -> ShownCommits]
    /\ tagObjects = EnrichTags
    /\ tagShow \in [EnrichTags -> ShownTags]
    /\ pgpKeys = {}
    /\ hasSignature = {}
    /\ stageRun = NoStage
    /\ BatchInit
    /\ MoreInit

EnrichLimits == {0, 2}

NextEnrich ==
    \/ \E limit \in EnrichLimits, S \in SUBSET commitNodes :
          \E fault \in FaultMaps(S) : EnrichCommitSignatures(limit, S, fault)
    \/ \E fault \in FaultMaps(TagSelection) : EnrichTagSignatures(fault)

SpecEnrich == InitEnrich /\ [][NextEnrich]_vars

\* ------------------------------------------------ specification SpecResume
\* the merge stage called again and again on the store of every bounded
\* history, once the commit stage has persisted the commits
ImportCommits ==
    /\ commitNodes # Commits
    /\ commitNodes' = Commits
    /\ imported' = Commits
    /\ identities' = {Author(c) : c \in Commits}
    /\ stageRun' = [stageRun EXCEPT !.stage = "commits"]
    /\ UNCHANGED <<repoVars, refNodes, refPointsTo, refStates, sawRef, events, sigChecked,
                   mergedIncludes, ingestRuns, workerVars, mergeResult, extractVars,
                   gitShow, tagShow, tagObjects, pgpKeys, hasSignature, batchVars, moreVars>>

NextResume ==
    \/ \E ps \in ParentLists(Len(parents) + 1, MaxParents),
          pos \in 1..(Len(parents) + 1) : AddCommit(ps, pos)
    \/ ImportCommits
    \/ \E fault \in FaultMaps(MergeShas) : EnrichMergedIncludes(fault)

SpecResume == InitMerge /\ [][NextResume]_vars

\* ------------------------------------------------ specification SpecBatch
\* the batched writes of the driver, one after the other, on a store that
\* holds the IngestRun node of the run; a transaction may fail
MaxBatch == 2            \* batch sizes 1..MaxBatch
MaxWrites == 2           \* batched writes, one after the other

\* the store when the run has its IngestRun node, and when the commit
\* stage has written the commits and the tags
NewRun == MergeNodes(EmptyGraph, {Node("IngestRun", "run-1")})

AfterCommits ==
    TransactionFunction("tags",
        TransactionFunction("commits", NewRun, SetToSeq(Rows("commits"))),
        SetToSeq(Rows("tags")))

InitBatch ==
    /\ parents = << <<>> >>
    /\ byDate = <<1>>
    /\ refs = [r \in RefNames |-> 0]
    /\ mergeResult = NoResult
    /\ StoreInit
    /\ WorkersInit
    /\ ExtractInit
    /\ EnrichInit
    /\ graph \in {NewRun, AfterCommits}
    /\ batchCall = NoCall
    /\ MoreInit

\* db.batch_upsert_commits(rows, batch_size) and the other writes
Write(op, rows, batch_size, failAt) ==
    /\ invocations < MaxWrites
    /\ invocations' = invocations + 1
    /\ LET st == BatchedWrite(op, graph, rows, batch_size, failAt)
       IN /\ graph' = st.graph
          /\ batchCall' = [op |-> op, rows |-> rows, batch_size |-> batch_size,
                           failAt |-> failAt, before |-> graph,
                           transactions |-> st.transactions, raised |-> st.raised]
    /\ UNCHANGED <<repoVars, storeVars, pc, run_id, run_info, commit_limit,
                   should_close_driver, driverOpen, new_commits, commit_count, sig_count,
                   merge_count, outcome, stages, lastSnap, mergeResult, extractVars,
                   enrichVars, moreVars>>

NextBatch ==
    \E op \in Writes, batch_size \in 1..MaxBatch :
        \E rows \in RowLists(Rows(op)), failAt \in 0..Cardinality(Rows(op)) :
            Write(op, rows, batch_size, failAt)

SpecBatch == InitBatch /\ [][NextBatch]_vars

\* ------------------------------------------------ specification SpecConcurrent
\* two runs with their own run ids, started by initiate_data_ingest, whose
\* store transactions interleave in any order
InitConcurrent ==
    /\ parents = << <<>>, <<>>, <<1, 2>> >>
    /\ byDate = <<3, 2, 1>>
    /\ refs = [r \in RefNames |-> IF r = HEAD THEN 3 ELSE 0]
    /\ mergeResult = NoResult
    /\ StoreInit
    /\ WorkersInit
    /\ AuxInit

\* the statement of the next transaction of w runs and reads the store
BeginTransaction(w) ==
    /\ ~txn[w].open
    /\ txn[w].k <= Len(RunTransactions(w))
    /\ txn' = [txn EXCEPT ![w] =
                  [k |-> @.k, open |-> TRUE,
                   absent |-> SeenAbsent(copies, RunTransactions(w)[@.k])]]
    /\ UNCHANGED <<repoVars, storeVars, workerVars, mergeResult, extractVars, enrichVars,
                   batchVars, copies, rels, schemaVars, connection,
                   changeVars, legacyVars, response, streams, faultVars>>

\* the open transaction of w commits
CommitTransaction(w) ==
    /\ txn[w].open
    /\ LET st == CommitOf([copies |-> copies, rels |-> rels],
                          RunTransactions(w)[txn[w].k], txn[w].absent)
       IN copies' = st.copies /\ rels' = st.rels
    /\ txn' = [txn EXCEPT ![w] = [k |-> @.k + 1, open |-> FALSE, absent |-> {}]]
    /\ UNCHANGED <<repoVars, storeVars, workerVars, mergeResult, extractVars, enrichVars,
                   batchVars, schemaVars, connection, changeVars, legacyVars, response, streams, faultVars>>

NextConcurrent ==
    \E w \in Workers : BeginTransaction(w) \/ CommitTransaction(w)

SpecConcurrent == InitConcurrent /\ [][NextConcurrent]_vars

\* ------------------------------------------------ specification SpecSchema
\* a store that holds FileChange nodes of earlier runs, some of them more
\* than once for a commit and a path; then create_constraints and the
\* file changes of the run
InitSchema ==
    /\ parents = << <<>> >>
    /\ byDate = <<1>>
    /\ refs = [r \in RefNames |-> 0]
    /\ mergeResult = NoResult
    /\ StoreInit
    /\ WorkersInit
    /\ ExtractInit
    /\ EnrichInit
    /\ BatchInit
    /\ ConcInit
    /\ fileChanges \in [FileChangeIds -> FileChangeKeys \cup {None}]
    /\ schema = NoSchema
    /\ connection = NoConnection
    /\ ChangesInit
    /\ LegacyInit
    /\ StatusInit
    /\ StreamsInit
    /\ FaultInit

SchemaUnchanged ==
    UNCHANGED <<repoVars, storeVars, workerVars, mergeResult, extractVars, enrichVars,
                batchVars, concVars, connection, changeVars, legacyVars, response, streams, faultVars>>

\* check_and_cleanup_filechange_duplicates() on its own: the report
CheckDuplicates ==
    /\ ~schema.issued
    /\ \E first \in FirstNodes(fileChanges) :
         LET info == check_and_cleanup_filechange_duplicates(fileChanges, FALSE, first)
         IN /\ fileChanges' = info.store
            /\ schema' = [schema EXCEPT !.cleanup = FALSE, !.before = fileChanges,
                                         !.duplicate_groups = info.duplicate_groups,
                                         !.duplicate_nodes = info.duplicate_nodes,
                                         !.deleted_count = info.deleted_count]
    /\ SchemaUnchanged

\* create_constraints: the repair, then the constraints; the FileChange
\* constraint is created unless two nodes carry one commit and path
CreateSchema ==
    /\ ~schema.issued
    /\ \E first \in FirstNodes(fileChanges) :
         LET info == check_and_cleanup_filechange_duplicates(fileChanges, TRUE, first)
         IN /\ fileChanges' = info.store
            /\ schema' = [issued |-> TRUE, constraint |-> DuplicateGroups(info.store) = {},
                          cleanup |-> TRUE, before |-> fileChanges, atIssue |-> info.store,
                          duplicate_groups |-> info.duplicate_groups,
                          duplicate_nodes |-> info.duplicate_nodes,
                          deleted_count |-> info.deleted_count]
    /\ SchemaUnchanged

\* _batch_upsert_file_changes_tx after the constraints: MERGE (fc:FileChange
\* {commit_hash, path})
MergeFileChange(key) ==
    /\ schema.issued
    /\ NodesOf(fileChanges, key) = {}
    /\ NodesOf(fileChanges, None) # {}
    /\ fileChanges' =
         [fileChanges EXCEPT ![CHOOSE i \in NodesOf(fileChanges, None) :
                                 \A j \in NodesOf(fileChanges, None) : i <= j] = key]
    /\ UNCHANGED schema
    /\ SchemaUnchanged

NextSchema ==
    \/ CheckDuplicates
    \/ CreateSchema
    \/ \E key \in FileChangeKeys : MergeFileChange(key)

SpecSchema == InitSchema /\ [][NextSchema]_vars

\* ------------------------------------------------ specification SpecConnect
\* process_git_data without a driver: Neo4jDriver() connects with retries
\* to a store that may be out of reach at any attempt, then the run starts
InitConnect ==
    /\ parents = << <<>> >>
    /\ byDate = <<1>>
    /\ refs = [r \in RefNames |-> 0]
    /\ mergeResult = NoResult
    /\ StoreInit
    /\ WorkersInit
    /\ AuxInit

ConnectUnchanged ==
    UNCHANGED <<repoVars, workerVars, mergeResult, extractVars, enrichVars, batchVars,
                concVars, schemaVars, changeVars, legacyVars, response, streams, faultVars>>

\* git_processor.py line 56, neo4j_driver.py lines 16-26
NewDriver(max_retries, retry_delay, id) ==
    /\ connection.state = "none"
    /\ connection' = [NoConnection EXCEPT !.state = IF max_retries = 0 THEN "no_driver"
                                                     ELSE "connecting",
                                          !.max_retries = max_retries,
                                          !.retry_delay = retry_delay,
                                          !.run_id = id]
    /\ UNCHANGED storeVars
    /\ ConnectUnchanged

\* one iteration of the loop of __init__
Attempt(reachable) ==
    /\ connection.state = "connecting"
    /\ connection' = IF reachable THEN OnConnected(connection) ELSE OnConnectError(connection)
    /\ UNCHANGED storeVars
    /\ ConnectUnchanged

\* line 38: time.sleep(retry_delay), then the next attempt
Sleep ==
    /\ connection.state = "sleeping"
    /\ connection' = [connection EXCEPT !.state = "connecting", !.attempt = @ + 1,
                                         !.slept = @ + connection.retry_delay,
                                         !.log = Append(@, "slept")]
    /\ UNCHANGED storeVars
    /\ ConnectUnchanged

\* git_processor.py lines 60-68: the run starts on the open connection
StartRun ==
    /\ connection.state = "connected"
    /\ connection' = [connection EXCEPT !.state = "running"]
    /\ ingestRuns' = create_ingest_run(ingestRuns, connection.run_id)
    /\ UNCHANGED <<commitNodes, imported, identities, refNodes, refPointsTo, refStates,
                   sawRef, events, sigChecked, mergedIncludes>>
    /\ ConnectUnchanged

\* max_retries = 0: no attempt is made and no driver is set; the first use
\* of the driver raises (lines 46-50)
UseWithoutDriver ==
    /\ connection.state = "no_driver"
    /\ connection' = [connection EXCEPT !.state = "raised"]
    /\ UNCHANGED storeVars
    /\ ConnectUnchanged

NextConnect ==
    \/ \E max_retries \in 0..MaxRetries, retry_delay \in 1..MaxDelay, id \in RunIds :
          NewDriver(max_retries, retry_delay, id)
    \/ \E reachable \in BOOLEAN : Attempt(reachable)
    \/ Sleep
    \/ StartRun
    \/ UseWithoutDriver

SpecConnect == InitConnect /\ [][NextConnect]_vars

\* ------------------------------------------------ specification SpecChanges
\* compute_file_changes on a commit of any tree, with a first parent of any
\* tree or, for a root commit, beside a working tree of any content
InitChanges ==
    /\ parents = << <<>> >>
    /\ byDate = <<1>>
    /\ refs = [r \in RefNames |-> 0]
    /\ mergeResult = NoResult
    /\ StoreInit
    /\ WorkersInit
    /\ ExtractInit
    /\ EnrichInit
    /\ BatchInit
    /\ ConcInit
    /\ SchemaInit
    /\ ConnectionInit
    /\ trees \in [root : BOOLEAN, commit : Trees \ {NULL_TREE}, other : Trees,
                  file_header : BOOLEAN]
    /\ all_changes = None
    /\ LegacyInit
    /\ StatusInit
    /\ StreamsInit
    /\ FaultInit

ComputeFileChanges ==
    /\ all_changes = None
    /\ all_changes' = Some(compute_file_changes(trees, SENSITIVE_PATHS))
    /\ UNCHANGED <<repoVars, storeVars, workerVars, mergeResult, extractVars, enrichVars,
                   batchVars, concVars, schemaVars, connection, trees,
                   legacyVars, response, streams, faultVars>>

NextChanges == ComputeFileChanges

SpecChanges == InitChanges /\ [][NextChanges]_vars

\* ------------------------------------------------ specification SpecRelevant
\* find_relevant_commits on the history of tests/conftest.py with any refs
\* (also none named master) and any selection of commits per path
SampleParents == << <<>>, <<1>>, <<2>>, <<2>>, <<4, 3>> >>
SampleByDate == <<5, 4, 3, 2, 1>>

LegacyUnchanged ==
    UNCHANGED <<repoVars, workerVars, mergeResult, extractVars, enrichVars, batchVars,
                concVars, schemaVars, connection, changeVars, response, streams, faultVars>>

InitRelevant ==
    /\ parents = SampleParents
    /\ byDate = SampleByDate
    /\ refs \in [RefNames -> 0..Len(SampleParents)]
    /\ mergeResult = NoResult
    /\ StoreInit
    /\ WorkersInit
    /\ ExtractInit
    /\ EnrichInit
    /\ BatchInit
    /\ ConcInit
    /\ SchemaInit
    /\ ConnectionInit
    /\ ChangesInit
    /\ StatusInit
    /\ StreamsInit
    /\ FaultInit
    /\ touched \in [1..Len(SampleParents) -> SUBSET TouchedPaths]
    /\ relevant = None
    /\ importStatus = None
    /\ fileDetails = {}
    /\ args = NoArgs

FindRelevantCommits(folder_or_file_path) ==
    /\ relevant = None
    /\ relevant' = Some(find_relevant_commits(folder_or_file_path))
    /\ LegacyUnchanged
    /\ UNCHANGED <<storeVars, touched, importStatus, fileDetails, args>>

NextRelevant ==
    \E p \in TouchedPaths \cup {"does/not/exist"} : FindRelevantCommits(p)

SpecRelevant == InitRelevant /\ [][NextRelevant]_vars

\* ------------------------------------------------ specification SpecLegacy
\* one call of process_git_data on the repository of tests/conftest.py and
\* an empty store that may hold an ImportStatus node; the caller passes its
\* driver, any folder_paths, and use_new_schema or not
SampleTouched ==
    << {}, {"src/policy"}, {"src/consensus"}, {"src/rpc/mempool.cpp"}, {} >>

Seeded == [git_import_complete |-> TRUE, next_complete |-> FALSE]

FolderPaths == {None, Some(<<>>)} \cup {Some(<<p>>) : p \in Pathspecs}

InitLegacy ==
    /\ parents = SampleParents
    /\ byDate = SampleByDate
    /\ refs = [r \in RefNames |-> IF r = HEAD THEN 5 ELSE 3]
    /\ mergeResult = NoResult
    /\ StoreInit
    /\ WorkersInit
    /\ ExtractInit
    /\ EnrichInit
    /\ BatchInit
    /\ ConcInit
    /\ SchemaInit
    /\ ConnectionInit
    /\ ChangesInit
    /\ StatusInit
    /\ StreamsInit
    /\ FaultInit
    /\ touched = SampleTouched
    /\ relevant = None
    /\ importStatus \in {None, Seeded, merge_import_status(None)}
    /\ fileDetails = {}
    /\ args = NoArgs

\* the call and the binding of its parameters
Call(folder_paths, use_new_schema) ==
    /\ args.state = "none"
    /\ args' = BindArgs(folder_paths, use_new_schema)
    /\ LegacyUnchanged
    /\ UNCHANGED <<storeVars, touched, relevant, importStatus, fileDetails>>

\* line 60: the staged pipeline
NewSchema(w) ==
    /\ args.state = "called"
    /\ args.use_new_schema
    /\ invocations = 0
    /\ Invoke(w, 1, 0, FALSE)

\* lines 119-141: the import that precedes the staged pipeline
LegacyImport ==
    /\ args.state = "called"
    /\ ~args.use_new_schema
    /\ LET status_flag == merge_import_status(importStatus)
           active_paths == IF args.folder_paths = None THEN default_paths
                           ELSE args.folder_paths[1]
           done == ProcessPaths(fileDetails, active_paths, 1)
       IN IF ~status_flag.git_import_complete
          THEN /\ commitNodes' = commitNodes \cup SeqToSet(find_commits_in_repo)
               /\ importStatus' = merge_get_import_status_node(importStatus)
               /\ fileDetails' = fileDetails
               /\ args' = [args EXCEPT !.state = "returned"]
          ELSE /\ commitNodes' = commitNodes
               /\ importStatus' = status_flag
               /\ fileDetails' = done.details
               /\ args' = [args EXCEPT !.state = IF done.raised THEN "raised" ELSE "returned"]
    /\ LegacyUnchanged
    /\ UNCHANGED <<imported, identities, refNodes, refPointsTo, refStates, sawRef, events,
                   sigChecked, mergedIncludes, ingestRuns, touched, relevant>>

NextLegacy ==
    \/ \E folder_paths \in FolderPaths, use_new_schema \in {None, Some(TRUE), Some(FALSE)} :
          Call(folder_paths, use_new_schema)
    \/ NewSchema("w2")
    \/ Step("w2")
    \/ LegacyImport

SpecLegacy == InitLegacy /\ [][NextLegacy]_vars

\* ------------------------------------------------ specification SpecStatus
\* the thread of app.py runs process_git_data under a fresh run id while
\* the status page is requested for any run id; the store may be out of
\* reach, and the query may raise
IngestStatus(id, connects, fails) ==
    /\ response.n < MaxLookups
    /\ response' = [n |-> response.n + 1, run_id |-> id, connects |-> connects,
                    fails |-> fails] @@ ingest_status(ingestRuns, id, connects, fails)
    /\ UNCHANGED <<repoVars, storeVars, workerVars, mergeResult, extractVars, enrichVars,
                   batchVars, concVars, schemaVars, connection, changeVars, legacyVars,
                   streams, faultVars>>

NextStatus ==
    \/ invocations < MaxCalls /\ Invoke("w1", invocations + 1, 0, TRUE)
    \/ Step("w1")
    \/ \E id \in RunIds, connects \in BOOLEAN, fails \in BOOLEAN :
          IngestStatus(id, connects, fails)

SpecStatus == InitRun /\ [][NextStatus]_vars

\* ------------------------------------------------ specification SpecStreams
\* the extractors applied to a commit or an annotated tag, signed or not,
\* with any message and diff, and with the report of gpg on either stream
InitStreams ==
    /\ parents = << <<>> >>
    /\ byDate = <<1>>
    /\ refs = [r \in RefNames |-> 0]
    /\ mergeResult = NoResult
    /\ StoreInit
    /\ WorkersInit
    /\ ExtractInit
    /\ EnrichInit
    /\ BatchInit
    /\ ConcInit
    /\ SchemaInit
    /\ ConnectionInit
    /\ ChangesInit
    /\ LegacyInit
    /\ response = NoResponse
    /\ FaultInit
    /\ streams \in [artifact : {"commit", "tag"}, body : Bodies, gpg : Reports,
                    on : {"stdout", "stderr"}]

\* extract_commit_signature(commit) or extract_tag_signature(tag_ref)
ExtractFromStreams(fails) ==
    /\ extraction = NotCalled
    /\ extraction' =
         LET sig_data ==
               IF streams.artifact = "commit"
               THEN extract_commit_signature(
                        commit_output(Stdout(streams), Stderr(streams)), fails)
               ELSE extract_tag_signature(
                        TRUE, tag_output(Stdout(streams), Stderr(streams)), fails)
         IN [op |-> "extract", failed |-> fails, found |-> sig_data.found,
             fingerprint |-> sig_data.fingerprint]
    /\ UNCHANGED <<repoVars, storeVars, workerVars, mergeResult, output, enrichVars,
                   batchVars, moreVars>>

NextStreams == \E fails \in BOOLEAN : ExtractFromStreams(fails)

SpecStreams == InitStreams /\ [][NextStreams]_vars

\* ------------------------------------------------ specification SpecDiscover
\* process_git_data run again and again, without a commit limit, on the
\* repository of tests/conftest.py, one object of which becomes unreadable
\* at some time (a pack file is damaged, an object is missing)
Damage(c) ==
    /\ broken = 0
    /\ broken' = c
    /\ UNCHANGED <<repoVars, storeVars, workerVars, mergeResult, extractVars, enrichVars,
                   batchVars, concVars, schemaVars, connection, changeVars, legacyVars,
                   response, streams, sigRun>>

NextDiscover ==
    \/ \E c \in Commits : Damage(c)
    \/ invocations < MaxRuns /\ Invoke("w1", invocations + 1, 0, FALSE)
    \/ Step("w1")

SpecDiscover == InitRun /\ [][NextDiscover]_vars

\* ------------------------------------------------ specification SpecBounded
\* process_git_data run again and again with the same commit limit on the
\* unchanged repository of tests/conftest.py
MaxLimit == 2            \* the commit limits of the bounded runs: 1..MaxLimit

SameLimit(L) == invocations = 0 \/ (lastSnap.valid /\ lastSnap.limit = L)

NextBounded ==
    \/ \E L \in 1..MaxLimit :
          invocations < MaxRuns /\ SameLimit(L) /\ Invoke("w1", invocations + 1, L, FALSE)
    \/ Step("w1")

SpecBounded == InitRun /\ [][NextBounded]_vars

\* ------------------------------------------------ specification SpecCrash
\* process_commit_signatures on the store of SpecEnrich, one store
\* transaction at a time; the process may be killed between any two steps,
\* and the stage is run again afterwards
CrashUnchanged ==
    UNCHANGED <<repoVars, commitNodes, imported, identities, refNodes, refPointsTo,
                refStates, sawRef, events, mergedIncludes, ingestRuns, workerVars,
                mergeResult, extractVars, gitShow, tagShow, tagObjects, stageRun,
                batchVars, concVars, schemaVars, connection, changeVars, legacyVars,
                response, streams, broken>>

\* the (commit, fingerprint) pairs for which the stage call extracted a valid
\* fingerprint
Extracted == IF sigRun.phase = "none" THEN {} ELSE sigRun.extracted

\* lines 561-660: the selection is read and the loop starts
StartStage(limit, S, fault) ==
    /\ sigRun.phase \in {"none", "done", "killed"}
    /\ S \in SigSelections(limit)
    /\ S # {}
    /\ fault \in FaultMaps(S)
    /\ sigRun' = [phase |-> "loop", final |-> FALSE, items |-> OrderByDate(S), i |-> 1,
                  fault |-> fault, st |-> LoopStart, extracted |-> {},
                  batch |-> {}, expected |-> process_commit_signatures(S, fault)]
    /\ UNCHANGED <<pgpKeys, hasSignature, sigChecked>>
    /\ CrashUnchanged

\* one iteration of the loop, lines 661-710
Iterate ==
    /\ sigRun.phase = "loop"
    /\ sigRun.i <= Len(sigRun.items)
    /\ LET sha      == sigRun.items[sigRun.i]
           fault    == sigRun.fault[sha]
           sig_data == gitShow[sha].signature[fault = "timeout"]
           valid    == /\ fault # "raise"
                       /\ sig_data.found /\ sig_data.fingerprint # <<>>
                       /\ ValidFormat(sig_data.fingerprint)
           pair     == IF valid THEN {<<sha, sig_data.fingerprint>>} ELSE {}
       IN sigRun' = [sigRun EXCEPT
                       !.st = Collect(@, sha, sig_data, fault),
                       !.i = @ + 1,
                       !.extracted = @ \cup pair,
                       !.batch = @ \cup pair,
                       !.phase = IF ReachesFlush(sigRun.i, sig_data, fault)
                                 THEN "keys" ELSE "loop"]
    /\ UNCHANGED <<pgpKeys, hasSignature, sigChecked>>
    /\ CrashUnchanged

\* the loop is over: the final flush of lines 748-760 begins
EndLoop ==
    /\ sigRun.phase = "loop"
    /\ sigRun.i > Len(sigRun.items)
    /\ sigRun' = [sigRun EXCEPT !.phase = "keys", !.final = TRUE]
    /\ UNCHANGED <<pgpKeys, hasSignature, sigChecked>>
    /\ CrashUnchanged

\* one store transaction of a flush
Transact ==
    /\ sigRun.phase \in {"keys", "sigs", "marks"}
    /\ LET st == FlushTransaction(sigRun.phase, sigRun.st)
       IN /\ pgpKeys' = st.keys
          /\ hasSignature' = st.sigs
          /\ sigChecked' = st.checked
          /\ sigRun' = [sigRun EXCEPT
                          !.st = st,
                          !.phase = PhaseAfter(sigRun.phase, sigRun.final),
                          !.batch = IF sigRun.phase = "marks" THEN {} ELSE @]
    /\ CrashUnchanged

\* the process is killed: the rows it had collected are gone, the store
\* keeps what the committed transactions wrote
Kill ==
    /\ sigRun.phase \in {"loop", "keys", "sigs", "marks"}
    /\ sigRun' = [sigRun EXCEPT !.phase = "killed"]
    /\ UNCHANGED <<pgpKeys, hasSignature, sigChecked>>
    /\ CrashUnchanged

NextCrash ==
    \/ \E limit \in EnrichLimits, S \in SUBSET commitNodes :
          \E fault \in FaultMaps(S) : StartStage(limit, S, fault)
    \/ Iterate
    \/ EndLoop
    \/ Transact
    \/ Kill

SpecCrash == InitEnrich /\ [][NextCrash]_vars

\* ------------------------------------------------ specification SpecExtract
\* the extractor applied to every output of at most MaxLines lines
InitExtract ==
    /\ parents = << <<>> >>
    /\ byDate = <<1>>
    /\ refs = [r \in RefNames |-> 0]
    /\ mergeResult = NoResult
    /\ StoreInit
    /\ WorkersInit
    /\ output \in Outputs
    /\ extraction = NotCalled
    /\ EnrichInit
    /\ BatchInit
    /\ MoreInit

\* parse_gpg_fingerprint(output), as the unit tests call it
ParseFingerprint ==
    /\ extraction = NotCalled
    /\ extraction' =
         LET fingerprint == parse_gpg_fingerprint(TextOf(output))
         IN [op |-> "parse", failed |-> FALSE, found |-> fingerprint # None,
             fingerprint |-> fingerprint]
    /\ UNCHANGED <<repoVars, storeVars, workerVars, mergeResult, output, enrichVars,
                   batchVars, moreVars>>

\* extract_commit_signature on a commit whose tool output is output
ExtractSignature(fails) ==
    /\ extraction = NotCalled
    /\ extraction' =
         LET sig_data == extract_commit_signature(TextOf(output), fails)
         IN [op |-> "extract", failed |-> fails, found |-> sig_data.found,
             fingerprint |-> sig_data.fingerprint]
    /\ UNCHANGED <<repoVars, storeVars, workerVars, mergeResult, output, enrichVars,
                   batchVars, moreVars>>

NextExtract ==
    \/ ParseFingerprint
    \/ \E fails \in BOOLEAN : ExtractSignature(fails)

SpecExtract == InitExtract /\ [][NextExtract]_vars

\* ------------------------------------------------ claims
Completed(w) == pc[w] = "done" /\ outcome[w] = "completed"

\* the repository is as the latest completed run saw it
RepositoryUnchanged == lastSnap.commits = Len(parents) /\ lastSnap.refs = refs

\* C1: idempotence of a re-run.  When a run completes over the repository
\* the previous completed run saw, the sets of Commit, Identity and Ref nodes
\* are exactly as that previous run left them.
C1_RerunLeavesNodeSets ==
    \A w \in Workers :
        (Completed(w) /\ lastSnap.valid /\ RepositoryUnchanged)
            => /\ commitNodes = lastSnap.commitNodes
               /\ identities = lastSnap.identities
               /\ refNodes = lastSnap.refNodes

C3_DiscoveryExact ==
    \A w \in Workers :
        (pc[w] = "persist" /\ commit_limit[w] = 0)
            => /\ SeqToSet(new_commits[w]) = ReachableFromRefs \ commitNodes
               /\ Cardinality(SeqToSet(new_commits[w])) = Len(new_commits[w])


\* what a step of worker w is: its position in process_git_data changes
Steps(w) == pc'[w] # pc[w]

\* C4: when the status the stage gate reads back is absent or is not
\* COMMITS_COMPLETE, the invocation writes nothing more to the store (no Ref,
\* RefState, Event, signature or MERGED_INCLUDES data, no COMPLETED status),
\* goes to its end, and the commits it persisted stay in the store
C4_GateStopsEnrichment ==
    [][\A w \in Workers :
          (Steps(w) /\ run_info'[w] \notin {"unread", "COMMITS_COMPLETE"})
          => /\ storeVars' = storeVars
             /\ stages'[w] = <<>>
             /\ pc'[w] \in {"finally", "done"}
             /\ outcome'[w] = "gated"
             /\ SeqToSet(new_commits'[w]) \subseteq imported']_vars

\* an invocation persisted commits, read STARTED back at the gate (another
\* invocation with the same run id had reset the record) and has returned
C4_Witness ==
    \E w \in Workers :
        /\ pc[w] = "done"
        /\ run_info[w] = "STARTED"
        /\ outcome[w] = "gated"
        /\ new_commits[w] # <<>>
        /\ SeqToSet(new_commits[w]) \subseteq imported
        /\ events = {} /\ refNodes = {} /\ mergedIncludes = {}

StatusRank(r) ==
    IF ~r.exists THEN 0
    ELSE IF r.status = "STARTED" THEN 1
    ELSE IF r.status = "COMMITS_COMPLETE" THEN 2
    ELSE 3

\* C5: for every run id the status of the IngestRun record only moves
\* forward, STARTED, COMMITS_COMPLETE, COMPLETED, and COMPLETED is never
\* changed again, also by a later invocation with the same run id
C5_StatusOnlyForward ==
    [][\A id \in RunIds : StatusRank(ingestRuns'[id]) >= StatusRank(ingestRuns[id])]_vars

\* the order of the enrichment steps in process_git_data
EnrichmentOrder == <<"refs", "files", "events", "csigs", "tsigs", "merges", "completed">>

IsPrefix(s, t) == Len(s) <= Len(t) /\ s = SubSeq(t, 1, Len(s))

\* C6: an invocation that passes the gate runs refs and tags, file changes,
\* events, commit signatures, tag signatures and merge ancestry in this order,
\* one after the other, and sets COMPLETED only after all six
C6_StageOrder ==
    \A w \in Workers :
        /\ IsPrefix(stages[w], EnrichmentOrder)
        /\ (stages[w] # <<>> => run_info[w] = "COMMITS_COMPLETE")
        /\ (outcome[w] = "completed" => stages[w] = EnrichmentOrder)

\* an invocation has run the six stages and has set COMPLETED
C6_Witness ==
    \E w \in Workers :
        /\ stages[w] = EnrichmentOrder
        /\ ingestRuns[run_id[w]].status = "COMPLETED"
        /\ refNodes # {} /\ events # {} /\ sigChecked # {} /\ mergedIncludes # {}

\* C7: there is no FAILED state.  From the step in which an exception leaves
\* a stage on, the invocation writes nothing: the IngestRun record keeps the
\* status it had, no later stage runs, COMPLETED is not set; the invocation
\* ends with the exception, and a connection it opened itself is closed
C7_ExceptionPropagates ==
    [][\A w \in Workers :
          (Steps(w) /\ (outcome[w] = "raised" \/ outcome'[w] = "raised"))
          => /\ storeVars' = storeVars
             /\ pc'[w] \in {"finally", "done", "idle"}
             /\ (pc'[w] = "finally" => stages'[w] = stages[w])
             /\ (pc'[w] = "done" => /\ outcome'[w] = "raised"
                                    /\ stages'[w] = stages[w]
                                    /\ (should_close_driver[w] => ~driverOpen'[w]))]_vars

\* an invocation that opened its own connection raised after the commits
\* were complete: it has ended, the connection is closed, the record still
\* says COMMITS_COMPLETE
C7_Witness ==
    \E w \in Workers :
        /\ pc[w] = "done"
        /\ outcome[w] = "raised"
        /\ should_close_driver[w]
        /\ ~driverOpen[w]
        /\ ingestRuns[run_id[w]].status = "COMMITS_COMPLETE"
        /\ "completed" \notin SeqToSet(stages[w])


\* compute_merged_commits has been called on commit m and has ended
MergeCalled(m) == mergeResult # NoResult /\ mergeResult.commit = m

\* what the second parent of m reaches and the first parent does not
Contributed(m) == Reachable(parents[m][2]) \ Reachable(parents[m][1])

\* C8: for a commit M with parents P1 and P2, compute_merged_commits(M) is
\* what P2 reaches, minus what P1 reaches, minus M, in every commit graph
\* and every walk order
C8_MergedIsDifference ==
    \A m \in Commits :
        (MergeCalled(m) /\ Len(parents[m]) >= 2 /\ ~mergeResult.failed)
        => mergeResult.value = Contributed(m) \ {m}

\* C9: compute_merged_commits returns the empty result for a commit with
\* fewer than two parents and whenever the ancestry walk raises, and it
\* never raises to its caller
C9_FailSoft ==
    \A m \in Commits :
        MergeCalled(m)
        => /\ ~mergeResult.raised
           /\ (Len(parents[m]) < 2 \/ mergeResult.failed) => mergeResult.value = {}

\* the walk has raised on a merge that does introduce commits
C9_Witness ==
    \E m \in Commits :
        /\ MergeCalled(m)
        /\ Len(parents[m]) >= 2
        /\ mergeResult.failed
        /\ Contributed(m) # {}
        /\ mergeResult.value = {}
        /\ ~mergeResult.raised

\* C10: when the second parent of a merge contributes exactly one commit X
\* that the first parent does not reach, compute_merged_commits is {X}
C10_SingleContribution ==
    \A m \in Commits :
        (/\ MergeCalled(m)
         /\ Len(parents[m]) >= 2
         /\ ~mergeResult.failed
         /\ Cardinality(Contributed(m)) = 1)
        => mergeResult.value = Contributed(m)

\* a merge of a one-commit branch into a line that has moved on: the two
\* parents share history, the first parent has commits of its own
C10_Witness ==
    \E m \in Commits :
        /\ MergeCalled(m)
        /\ Len(parents[m]) >= 2
        /\ ~mergeResult.failed
        /\ Contributed(m) = {parents[m][2]}
        /\ Reachable(parents[m][1]) \cap Reachable(parents[m][2]) # {}
        /\ Reachable(parents[m][1]) \ Reachable(parents[m][2]) # {}
        /\ mergeResult.value = {parents[m][2]}


\* the hex digits of a matched group, concatenated and upper-cased
HexDigitsOf(group) == upper(SelectSeq(group, IsHex))

\* C11: parse_gpg_fingerprint uses the patterns in priority order.  When the
\* text has a "Primary key fingerprint:" line of ten whitespace-separated
\* groups of four hex digits the result is those groups concatenated and
\* upper-cased, whatever else the text holds; the "using <ALGO> key" value
\* is the result only when there is no such line, the labeled value only
\* when neither of the two is there
C11_PatternPriority ==
    extraction.op = "parse" =>
        LET primary == Search(TextOf(output), Pattern1At)
            using   == Search(TextOf(output), Pattern2At)
            labeled == Search(TextOf(output), Pattern3At)
        IN extraction.fingerprint =
             IF primary # NoMatch THEN HexDigitsOf(primary)
             ELSE IF using # NoMatch THEN upper(using)
             ELSE upper(labeled)

IsFingerprint(fp) == Len(fp) = FingerprintLength /\ \A k \in 1..Len(fp) : fp[k] \in UpperHex

\* the objects of the given type that have a HAS_SIGNATURE edge
Signed(type) == {e[2] : e \in {x \in hasSignature : x[1] = type}}

\* C13: fingerprint shape.  Every fingerprint of a PGPKey node or of a
\* HAS_SIGNATURE edge, of a commit or of a tag, is 40 characters of 0-9A-F;
\* an object whose extraction gives no value of that shape gets no edge and
\* is counted as unsigned by the stage that processed it.
C13_FingerprintShape ==
    /\ \A fp \in pgpKeys \cup {e[3] : e \in hasSignature} : IsFingerprint(fp)
    /\ stageRun.stage = "csigs" =>
          /\ \A c \in stageRun.selected :
                ~IsFingerprint(gitShow[c].signature[FALSE].fingerprint)
                    => c \notin Signed("Commit")
          /\ stageRun.total_unsigned
                = Cardinality(stageRun.selected \ Signed("Commit"))
    /\ stageRun.stage = "tsigs" =>
          /\ \A t \in stageRun.selected :
                ~IsFingerprint(tagShow[t].signature[FALSE].fingerprint)
                    => t \notin Signed("TagObject")
          /\ stageRun.total_unsigned
                = Cardinality(stageRun.selected \ Signed("TagObject"))

\* the tag stage has processed an annotated tag whose primary line matches
\* pattern 1 but does not give 40 characters, after the commit stage stored
\* a signature
C13_Witness ==
    /\ stageRun.stage = "tsigs"
    /\ hasSignature # {}
    /\ \E t \in stageRun.selected :
          /\ stageRun.fault[t] = "ok"
          /\ tagShow[t].annotated
          /\ Search(TextOf(tagShow[t].output), Pattern1At) # NoMatch
          /\ ~IsFingerprint(upper(replace(Search(TextOf(tagShow[t].output), Pattern1At),
                                          " ")))
          /\ t \notin Signed("TagObject")
          /\ stageRun.total_unsigned = 1

\* C14: fail-soft extraction.  When the extraction of one item of a
\* signature stage times out or raises, the item gets no signature, every
\* other item of the call is processed, and the signature of every other
\* item that has one is persisted with its key.
C14_FailSoft ==
    /\ stageRun.stage = "csigs" =>
          /\ \A c \in stageRun.selected :
                IF stageRun.fault[c] # "ok" THEN c \notin Signed("Commit")
                ELSE gitShow[c].signature[FALSE].found =>
                       /\ <<"Commit", c, gitShow[c].signature[FALSE].fingerprint>>
                             \in hasSignature
                       /\ gitShow[c].signature[FALSE].fingerprint \in pgpKeys
          /\ stageRun.total_signed + stageRun.total_unsigned
                = Cardinality(stageRun.selected)
          /\ stageRun.selected \subseteq sigChecked
    /\ stageRun.stage = "tsigs" =>
          \A t \in stageRun.selected :
                IF stageRun.fault[t] # "ok" THEN t \notin Signed("TagObject")
                ELSE tagShow[t].signature[FALSE].found =>
                       /\ <<"TagObject", t, tagShow[t].signature[FALSE].fingerprint>>
                             \in hasSignature
                       /\ tagShow[t].signature[FALSE].fingerprint \in pgpKeys

\* the commit stage has processed a signed commit whose extraction raised,
\* and another signed commit of the same call has its signature
C14_Witness ==
    /\ stageRun.stage = "csigs"
    /\ \E c, d \in stageRun.selected :
          /\ stageRun.fault[c] = "raise"
          /\ gitShow[c].signature[FALSE].found
          /\ c \notin Signed("Commit")
          /\ stageRun.fault[d] = "ok"
          /\ d \in Signed("Commit")

\* C15: signature resumability.  When the commit stage has finished, every
\* commit it selected is flagged signature-checked, whatever its extraction
\* gave; and the stage selected no commit that was flagged or had a
\* HAS_SIGNATURE edge when it was called.
C15_SignatureResumable ==
    stageRun.stage = "csigs" =>
        /\ stageRun.selected \subseteq sigChecked
        /\ stageRun.selected \cap (stageRun.checkedBefore \cup stageRun.signedBefore) = {}

\* a later call of the commit stage, after one that flagged a signed commit,
\* has processed a signed commit, an unsigned one or one whose extraction
\* failed
C15_Witness ==
    /\ stageRun.stage = "csigs"
    /\ stageRun.rerun
    /\ stageRun.signedBefore # {}
    /\ stageRun.signedBefore \subseteq stageRun.checkedBefore
    /\ \E c \in stageRun.selected : stageRun.fault[c] # "ok"
    /\ stageRun.selected \subseteq sigChecked

\* C16: merge resumability.  When the merge stage is called again on the
\* repository and the store the previous call left, it selects no merge
\* commit whose ancestry an earlier call has computed.
C16_MergeResumable ==
    (stageRun.stage = "merges" /\ stageRun.rerun)
        => stageRun.selected \cap stageRun.computedBefore = {}

\* the concatenation of the batches txs
RECURSIVE Flatten(_)
Flatten(txs) == IF txs = <<>> THEN <<>> ELSE Head(txs) \o Flatten(Tail(txs))

Ceil(n, b) == (n + b - 1) \div b

Chunked(call) == call.op \in Writes \ SingleTransaction

\* C17: a chunked write of n rows with batch size b that does not fail
\* issues ceil(n/b) transactions of 1..b rows each, and the transactions,
\* one after the other, carry the rows of the input in the order of the
\* input, each row once.
C17_BatchPartitioning ==
    (Chunked(batchCall) /\ ~batchCall.raised) =>
        /\ Len(batchCall.transactions) = Ceil(Len(batchCall.rows), batchCall.batch_size)
        /\ \A k \in 1..Len(batchCall.transactions) :
              Len(batchCall.transactions[k]) \in 1..batchCall.batch_size
        /\ Flatten(batchCall.transactions) = batchCall.rows

C17_Witness ==
    /\ batchCall.op = "commits"
    /\ ~batchCall.raised
    /\ Len(batchCall.rows) = 3
    /\ batchCall.batch_size = 2
    /\ Len(batchCall.transactions) = 2

\* the store after the transactions txs have committed on g, one by one
RECURSIVE Committed(_, _, _)
Committed(op, g, txs) ==
    IF txs = <<>> THEN g
    ELSE Committed(op, TransactionFunction(op, g, Head(txs)), Tail(txs))

\* C18: when the transaction of batch k fails, the write raises, batch k
\* is the last one attempted, and the store holds what the batches before
\* k committed on the store of before the write and nothing of batch k.
C18_BatchAtomicity ==
    batchCall.raised =>
        /\ Len(batchCall.transactions) = batchCall.failAt
        /\ graph = Committed(batchCall.op, batchCall.before,
                             SubSeq(batchCall.transactions, 1, batchCall.failAt - 1))
        /\ Chunked(batchCall) =>
              Flatten(batchCall.transactions)
                = SubSeq(batchCall.rows, 1, Len(Flatten(batchCall.transactions)))

C18_Witness ==
    /\ batchCall.op = "commits"
    /\ batchCall.raised
    /\ batchCall.failAt = 2
    /\ Len(batchCall.rows) = 3
    /\ batchCall.batch_size = 1
    /\ graph # batchCall.before

\* C19: after a write that did not fail, the same write with the same rows
\* leaves the nodes, the relationships and the properties of the store as
\* they are.
C19_UpsertIdempotence ==
    (batchCall.op \in Writes /\ ~batchCall.raised) =>
        LET again == BatchedWrite(batchCall.op, graph, batchCall.rows,
                                  batchCall.batch_size, 0)
        IN ~again.raised /\ again.graph = graph

C19_Witness ==
    /\ batchCall.op = "signatures"
    /\ ~batchCall.raised
    /\ Len(batchCall.rows) = 2
    /\ Edge("HAS_SIGNATURE", Node("Commit", "c1"), Node("PGPKey", "K1")) \in DOMAIN graph.edges
    /\ graph # batchCall.before

\* the orders of the rows of a list
Orders(rows) ==
    {p \in RowLists({rows[k] : k \in 1..Len(rows)}) : Len(p) = Len(rows)}

\* C20: after batch_upsert_commits on rows of distinct commits, the store
\* is the one every order of those rows and every batch size give from the
\* store of before the write.
C20_OrderIndependence ==
    (batchCall.op = "commits" /\ ~batchCall.raised) =>
        \A p \in Orders(batchCall.rows), b \in 1..MaxBatch :
            BatchedWrite("commits", batchCall.before, p, b, 0).graph = graph

\* c2 is written before its parent c1
C20_Witness ==
    /\ batchCall.op = "commits"
    /\ ~batchCall.raised
    /\ Len(batchCall.rows) = 3
    /\ batchCall.rows[1].sha = "c2"
    /\ batchCall.rows[2].sha = "c1"
    /\ Node("Commit", "c1") \notin DOMAIN batchCall.before.nodes
    /\ graph.nodes[Node("Commit", "c1")].message = "c1"


\* C21: in every state of concurrent runs, every label and key the
\* pipeline writes is carried by at most one node.
C21_KeyUniqueness == \A n \in StoreNodes : copies[n] <= 1

\* the labels create_constraints constrains are carried by at most one
\* node per key
C21_ConstrainedUnique == \A n \in StoreNodes : n[1] \in Constrained => copies[n] <= 1

RunsDone == \A w \in Workers : txn[w].k > Len(RunTransactions(w))

\* the Commit and Identity nodes and the parent, signature and
\* merged-includes relationships of a store
CommitState(st) ==
    [nodes |-> [n \in {x \in StoreNodes : x[1] \in {"Commit", "Identity"}} |-> st.copies[n]],
     rels |-> [e \in {x \in StoreRels :
                        x[1] \in {"HAS_PARENT", "HAS_SIGNATURE", "MERGED_INCLUDES"}} |->
                  st.rels[e]]]

\* C22: when two runs with different run ids have run concurrently, the
\* Commit, Identity, parent, signature and merged-includes state is the
\* one a single run leaves.
C22_Convergence ==
    RunsDone =>
        CommitState([copies |-> copies, rels |-> rels])
            = CommitState(RunAlone([copies |-> NoCopies, rels |-> NoRels], "w1", 1))


\* C23: when create_constraints issues the FileChange constraint, every
\* commit and path that had FileChange nodes has exactly one of them and
\* it is one of those it had; the nodes of the commits and paths that had
\* one node are as they were; the deleted count is the sum over the
\* duplicate groups of their size less one.
C23_RepairBeforeConstraint ==
    schema.issued =>
        /\ \A key \in FileChangeKeys :
              /\ NodesOf(schema.atIssue, key) \subseteq NodesOf(schema.before, key)
              /\ Cardinality(NodesOf(schema.atIssue, key))
                   = IF NodesOf(schema.before, key) = {} THEN 0 ELSE 1
              /\ Cardinality(NodesOf(schema.before, key)) = 1 =>
                    NodesOf(schema.atIssue, key) = NodesOf(schema.before, key)
        /\ schema.deleted_count
             = SumOver(DuplicateGroups(schema.before),
                       [key \in FileChangeKeys |-> Cardinality(NodesOf(schema.before, key)) - 1])
        /\ schema.constraint

C23_Witness ==
    /\ schema.issued
    /\ Cardinality(NodesOf(schema.before, <<"c1", "README.md">>)) = 3
    /\ Cardinality(NodesOf(schema.before, <<"c2", "README.md">>)) = 1
    /\ schema.deleted_count = 2
    /\ NodesOf(schema.atIssue, <<"c1", "README.md">>) = {2}


Count(log, x) == Cardinality({i \in 1..Len(log) : log[i] = x})

\* C24: the connection makes at most max_retries attempts, sleeps
\* retry_delay after every failed attempt but the last, makes no attempt
\* after a successful one, and raises when the last attempt has failed;
\* when it has raised, the store holds no write and no IngestRun record.
C24_BoundedRetries ==
    LET log == connection.log
        attempts == Count(log, "failed") + Count(log, "connected")
    IN /\ attempts <= connection.max_retries
       /\ \A i \in 1..Len(log) :
             /\ log[i] = "connected" => i = Len(log)
             /\ (log[i] = "failed" /\ i < Len(log)) => log[i + 1] = "slept"
             /\ log[i] = "slept" => (i > 1 /\ log[i - 1] = "failed")
       /\ connection.slept = Count(log, "slept") * connection.retry_delay
       /\ (connection.max_retries > 0 /\ Count(log, "failed") = connection.max_retries)
             => connection.state = "raised"
       /\ (connection.state = "raised" /\ connection.max_retries > 0)
             => Count(log, "failed") = connection.max_retries
       /\ connection.state = "raised" =>
             /\ ingestRuns = [id \in RunIds |-> NoRun]
             /\ commitNodes = {} /\ imported = {} /\ identities = {} /\ refNodes = {}
             /\ refStates = {} /\ events = {} /\ sigChecked = {} /\ mergedIncludes = {}

C24_Witness ==
    /\ connection.state = "raised"
    /\ connection.max_retries = 3
    /\ connection.log = <<"failed", "slept", "failed", "slept", "failed">>
    /\ connection.slept = 2 * connection.retry_delay


Computed == all_changes # None
Reported == all_changes[1]

\* C25: a reported change is flagged sensitive exactly when the leading
\* characters of its path are one of the sensitive prefixes; a change of
\* src/policy/foo.cpp is flagged, one of README.md is not.
C25_SensitivityFlag ==
    Computed =>
        \A ch \in Reported :
            /\ ch.isSensitive <=>
                  \E prefix \in SENSITIVE_PATHS :
                      /\ Len(prefix) <= Len(ch.path)
                      /\ SubSeq(ch.path, 1, Len(prefix)) = prefix
            /\ ch.path = Text.SrcPolicyFooCpp => ch.isSensitive
            /\ ch.path = Text.ReadmeMd => ~ch.isSensitive

C25_Witness ==
    /\ Computed
    /\ \E ch \in Reported : ch.path = Text.SrcPolicyFooCpp /\ ch.isSensitive
    /\ \E ch \in Reported : ch.path = Text.ReadmeMd /\ ~ch.isSensitive
    /\ \E ch \in Reported : ch.path = Text.DocSrcPolicyMd /\ ~ch.isSensitive

Kinds(hunk, kind) == Cardinality({k \in 1..Len(hunk) : hunk[k].kind = kind})

\* C26: for every reported change, add is the number of added lines of the
\* unified diff of the file and del the number of its removed lines,
\* whatever the lines hold.
C26_LineCounts ==
    Computed =>
        \A ch \in Reported :
            ch.add = Kinds(ch.hunk, "added") /\ ch.del = Kinds(ch.hunk, "removed")

\* the tree the claim compares the commit with: that of the first parent,
\* the empty tree for a root commit
FirstParentTree == IF trees.root THEN NULL_TREE ELSE trees.other

\* the changes from the first parent to the commit: R for a renamed path,
\* with its source; else A for a path the parent lacks, D for a path the
\* commit lacks, M for a path whose content differs
ChangesVersusFirstParent ==
    LET renamed == Renames(FirstParentTree, trees.commit)
    IN {<<TreePaths[r[2]], "R", Some(TreePaths[r[1]])>> : r \in renamed}
         \cup
       {<<TreePaths[i],
          IF FirstParentTree[i] = 0 THEN "A" ELSE IF trees.commit[i] = 0 THEN "D" ELSE "M",
          None>> :
            i \in {j \in PathIds : /\ FirstParentTree[j] # trees.commit[j]
                                    /\ \A r \in renamed : j # r[1] /\ j # r[2]}}

\* C27: the reported changes are the changes of the commit versus its
\* first parent, or versus the empty tree for a root commit, each path
\* once with its one status.
C27_StatusVersusFirstParent ==
    Computed =>
        /\ {<<ch.path, ch.status, ch.rename_from>> : ch \in Reported} = ChangesVersusFirstParent
        /\ Cardinality(Reported) = Cardinality({ch.path : ch \in Reported})

\* the commits some ref reaches that git selects for path p
TouchingCommits(p) == {c \in ReachableFromRefs : p \in touched[c]}

Preseeded == importStatus # None /\ importStatus.git_import_complete

\* the FileDetailRecord of path p counts the commits touching p
DetailRecorded(p) ==
    \E f \in fileDetails :
        /\ f.file_path = p
        /\ f.json_blob.length_of_all_commits = Cardinality(TouchingCommits(p))

\* C29: when the store holds an ImportStatus node with git_import_complete
\* = true, a call of process_git_data with repo_path, neo4j_driver and
\* folder_paths = [p] alone has, when it returns, imported no Commit node
\* and stored a FileDetailRecord for p whose length_of_all_commits is the
\* number of commits touching p.
C29_PreseededStatus ==
    \A p \in Pathspecs :
        (/\ Preseeded
         /\ args.state = "called"
         /\ args.passed = None
         /\ args.folder_paths = Some(<<p>>)
         /\ pc["w2"] = "done"
         /\ outcome["w2"] = "completed")
        => (commitNodes = {} /\ DetailRecorded(p))

\* the same call with use_new_schema = False passed: the branch of lines
\* 119-141 behaves as C29 describes
C29_LegacyBranch ==
    [][\A p \in Pathspecs :
          (/\ Preseeded
           /\ args.passed = Some(FALSE)
           /\ args.folder_paths = Some(<<p>>)
           /\ args'.state = "returned")
          => (commitNodes' = {} /\ DetailRecorded(p)')]_vars

\* the status and the counters the store holds for run id
Persisted(id) ==
    [status |-> ingestRuns[id].status,
     totalCommitsProcessed |-> ingestRuns[id].totalCommitsProcessed,
     totalSignaturesProcessed |-> ingestRuns[id].totalSignaturesProcessed,
     totalMergesProcessed |-> ingestRuns[id].totalMergesProcessed]

StageEnd == {"refs", "files", "events", "sigstatus", "tsigs", "mergestatus"}

\* C31: the step that completes an enrichment stage advances lastProgressAt
\* of the run's IngestRun record, and when the first run over a store is
\* marked COMPLETED its totalSignaturesProcessed is the number of signatures
\* stored and its totalMergesProcessed the number of merges it processed.
C31_ProgressPerStage ==
    [][\A w \in Workers :
          LET id == run_id[w]
          IN /\ (pc[w] \in StageEnd /\ pc'[w] \notin {pc[w], "finally"}) =>
                    ingestRuns'[id].lastProgressAt > ingestRuns[id].lastProgressAt
             /\ (pc[w] = "complete" /\ outcome'[w] = "completed" /\ invocations = 1) =>
                    /\ ingestRuns'[id].totalSignaturesProcessed = Cardinality(SignedCommits)
                    /\ ingestRuns'[id].totalMergesProcessed =
                          Cardinality({m \in imported : isMerge(m)})]_vars

\* the rows of the commits the store holds as imported
ImportedRows ==
    {row \in Rows("commits") :
        /\ Node("Commit", row.sha) \in DOMAIN graph.nodes
        /\ "message" \in DOMAIN graph.nodes[Node("Commit", row.sha)]}

ParentEdges(row) ==
    {<<"HAS_PARENT", Node("Commit", row.sha), Node("Commit", row.parents[k]), k - 1>> :
        k \in 1..Len(row.parents)}

\* C32: for every imported commit with parent list [p0, ..., pn-1] the
\* store holds exactly one HAS_PARENT relationship with idx = i to p_i for
\* each i and no other HAS_PARENT relationship from the commit, also after
\* the commit was submitted again.
C32_ParentOrder ==
    \A row \in ImportedRows :
        /\ {e \in DOMAIN graph.edges :
               e[1] = "HAS_PARENT" /\ e[2] = Node("Commit", row.sha)} = ParentEdges(row)
        /\ \A e \in ParentEdges(row) : graph.edges[e].copies = 1

\* the merge c3 of c2 and c0 was in the store and is submitted again
C32_Witness ==
    /\ batchCall.op = "commits"
    /\ ~batchCall.raised
    /\ \E k \in 1..Len(batchCall.rows) : batchCall.rows[k].sha = "c3"
    /\ Node("Commit", "c3") \in DOMAIN batchCall.before.nodes
    /\ "message" \in DOMAIN batchCall.before.nodes[Node("Commit", "c3")]
    /\ <<"HAS_PARENT", Node("Commit", "c3"), Node("Commit", "c0"), 1>> \in DOMAIN graph.edges
    /\ <<"HAS_PARENT", Node("Commit", "c3"), Node("Commit", "c2"), 0>> \in DOMAIN graph.edges

\* C33: every AUTHORED, COMMITTED and CO_AUTHORED relationship between an
\* Identity and a Commit carries the timestamp of the act.
C33_ActingTimestamp ==
    \A e \in DOMAIN graph.edges :
        e[1] \in {"AUTHORED", "COMMITTED", "CO_AUTHORED"} =>
            "at" \in DOMAIN graph.edges[e].properties

\* the two streams of the tool, combined
Combined == Stdout(streams) \o <<"\n">> \o Stderr(streams)

\* C34: for a commit and for an annotated tag alike, the result of the
\* extractor is what detection and fingerprint extraction give on the
\* combination of the standard output and the standard error of the tool;
\* a signature whose report is on the error stream alone is found.
C34_StreamHandling ==
    (extraction.op = "extract" /\ ~extraction.failed) =>
        /\ extraction.found = SignatureIn(Combined).found
        /\ extraction.fingerprint = SignatureIn(Combined).fingerprint

\* C40: for a commit that carries no signature the extractor returns none,
\* whatever the message and the diff of the commit hold.
C40_TextIndependence ==
    (extraction.op = "extract" /\ streams.artifact = "commit" /\ streams.gpg = <<>>) =>
        ~extraction.found

\* ------------------------------------------------ C35
\* the refs whose walk in the loop of lines 244-253 raises: the walk meets
\* the unreadable object before a stored commit
WalkRaises(r) ==
    /\ refs[r] # 0
    /\ broken \in Reachable(refs[r])
    /\ SeqToSet(Yielded(iter_commits(refs[r]), broken)) \cap commitNodes = {}

\* C35: when the walk of one ref raises and that of another does not, the
\* discovery does not abort and returns the commits without a node that the
\* other refs reach
C35_PerRefIsolation ==
    [][(/\ pc["w1"] = "discover"
        /\ pc'["w1"] # "discover"
        /\ broken # 0
        /\ \E r \in RefNames : WalkRaises(r)
        /\ \E r \in RefNames : refs[r] # 0 /\ ~WalkRaises(r))
       => /\ pc'["w1"] = "persist"
          /\ \A r \in RefNames :
                (refs[r] # 0 /\ ~WalkRaises(r)) =>
                   Reachable(refs[r]) \ commitNodes \subseteq SeqToSet(new_commits'["w1"])]_vars

\* the isolation where it works: the walk of master raises, the discovery
\* goes on and returns the commits of feature
C35_Isolated ==
    [][(/\ pc["w1"] = "discover"
        /\ pc'["w1"] # "discover"
        /\ commitNodes = {}
        /\ WalkRaises("master") /\ ~WalkRaises("feature"))
       => /\ pc'["w1"] = "persist"
          /\ SeqToSet(new_commits'["w1"]) = Reachable(refs["feature"])]_vars

\* ------------------------------------------------ C36
\* the Commit nodes that carry a hash only: merged as a parent (line 599) or
\* as the tip of a ref (_snapshot_refs_tx), never written by the commit upsert
Placeholders == commitNodes \ imported

\* C36: no placeholder is permanent.  When a run without a commit limit
\* completes over the repository the previous completed run saw, every
\* Commit node that run left and that a ref reaches carries its attributes
\* and its identity edges.
C36_NoPermanentPlaceholders ==
    \A w \in Workers :
        (Completed(w) /\ commit_limit[w] = 0 /\ lastSnap.valid /\ RepositoryUnchanged)
            => (lastSnap.commitNodes \cap ReachableFromRefs) \cap Placeholders = {}

\* ------------------------------------------------ C38
\* the commits the Ref node of branch r has a POINTS_TO edge to
PointedAt(r) == {e[2] : e \in {x \in refPointsTo : x[1] = r}}

\* C38: a Ref points at its current tip only.  When the refs stage of a run
\* has written its snapshot, the Ref node of every branch has a POINTS_TO
\* edge to the tip the run saw and to no other commit.
C38_RefPointsAtTipOnly ==
    [][\A w \in Workers :
          (pc[w] = "refs" /\ pc'[w] = "files" /\ ingestRuns[run_id[w]].exists)
             => \A r \in RefNames : refs[r] # 0 => PointedAt(r)' = {refs[r]}]_vars

\* ------------------------------------------------ C39
\* C39: bounded runs converge.  A run with a commit limit L >= 1 persists at
\* most L commits, and a run whose discovery returns nothing finds every
\* commit that a ref reaches persisted with its attributes.
C39_BoundedRunsConverge ==
    \A w \in Workers :
        (pc[w] = "persist" /\ commit_limit[w] >= 1)
            => /\ Len(new_commits[w]) <= commit_limit[w]
               /\ new_commits[w] = <<>> => ReachableFromRefs \subseteq imported

\* the part of C39 that holds: a bounded run persists at most L commits
C39_AtMostL ==
    [][\A w \in Workers :
          (pc[w] = "persist" /\ pc'[w] = "mark" /\ commit_limit[w] >= 1)
             => Cardinality(imported' \ imported) <= commit_limit[w]]_vars

\* ------------------------------------------------ C37
\* C37: crash-safe ordering in the commit-signature stage.  In every state,
\* the states between two store transactions and after a kill included, a
\* commit for which a valid fingerprint was extracted is flagged
\* signature-checked only if its PGPKey node and its HAS_SIGNATURE edge are
\* in the store; every edge has its key; and within a flush the keys of the
\* batch are in the store before its edges, its edges before its marks.
C37_CrashSafeOrder ==
    /\ \A e \in Extracted :
          e[1] \in sigChecked =>
             e[2] \in pgpKeys /\ <<"Commit", e[1], e[2]>> \in hasSignature
    /\ \A e \in hasSignature : e[3] \in pgpKeys
    /\ sigRun.phase \in {"sigs", "marks"} =>
          \A e \in sigRun.batch : e[2] \in pgpKeys
    /\ sigRun.phase = "marks" =>
          \A e \in sigRun.batch : <<"Commit", e[1], e[2]>> \in hasSignature

\* the run was killed after the edges of a batch were written and before
\* its marks were: a signed commit has its key and its edge and is not flagged
C37_Witness ==
    /\ sigRun.phase = "killed"
    /\ \E e \in Extracted :
          /\ <<"Commit", e[1], e[2]>> \in hasSignature
          /\ e[1] \notin sigChecked
    /\ \E e \in Extracted : e[1] \in sigChecked

\* the transactions of a stage call that is not killed add up to what the
\* stage does in one piece
C37_SameAsStage ==
    sigRun.phase = "done" =>
       /\ pgpKeys = sigRun.expected.keys
       /\ hasSignature = sigRun.expected.sigs
       /\ sigChecked = sigRun.expected.checked

====
